---- MODULE Spec2Model ----
(***************************************************************************)
(* A state-machine model of the casino card game engine: the reducer       *)
(* handlers of game-actions.js, the validators of validation.js, the       *)
(* server's 'game-action' dispatch and the client's drop handlers.         *)
(*                                                                         *)
(* JavaScript objects are records.  A card is [rank, suit, value]; a card  *)
(* placed in a temporary stack also carries a source field.  A build is    *)
(* [buildId, type, cards, value, owner, isExtendable]; a temporary stack   *)
(* is [stackId, type, cards, owner].  A table is a sequence of loose       *)
(* cards, builds and stacks, told apart as the code does, by the presence  *)
(* and value of the type field.  Players are 0 and 1, as in the code.      *)
(***************************************************************************)
EXTENDS Integers, Sequences, FiniteSets, TLC

VARIABLES gameState, last, clock, players, emitted, playerNumber

vars == <<gameState, last, clock, players, emitted, playerNumber>>

(* players is the server's connection list, emitted the messages its last  *)
(* handler run sent, playerNumber what each client keeps from 'game-start'. *)

(* Number of accepted actions explored from an initial position. *)
MaxSteps == 2

(* The value the code writes as null for lastCapturer and winner. *)
null == -1

Players == {0, 1}

(* The sockets that may connect. *)
Sockets == {"s1", "s2", "s3"}

(* Two sockets connected and the game started for them. *)
TwoConnected ==
    /\ players = << "s1", "s2" >>
    /\ emitted = <<>>
    /\ playerNumber = [s \in Sockets |-> IF s = "s1" THEN 0 ELSE IF s = "s2" THEN 1 ELSE null]

(***************************************************************************)
(* Generic sequence helpers (Array.prototype.filter/map/flatMap/sort).     *)
(***************************************************************************)
RECURSIVE SumSeq(_)
SumSeq(s) == IF s = <<>> THEN 0 ELSE Head(s) + SumSeq(Tail(s))

RECURSIVE Flat(_)
Flat(ss) == IF ss = <<>> THEN <<>> ELSE Head(ss) \o Flat(Tail(ss))

Map(s, F(_)) == [i \in 1..Len(s) |-> F(s[i])]

Filter(s, P(_)) == SelectSeq(s, P)

Some(s, P(_)) == \E i \in 1..Len(s) : P(s[i])

(* findIndex: the first position satisfying P, 0 when there is none      *)
(* (JavaScript's -1, shifted to 1-based sequences).                      *)
FindIndex(s, P(_)) ==
    IF \E i \in 1..Len(s) : P(s[i])
    THEN CHOOSE i \in 1..Len(s) : P(s[i]) /\ \A j \in 1..(i - 1) : ~P(s[j])
    ELSE 0

has(o, f) == f \in DOMAIN o

typeOf(item) == IF has(item, "type") THEN item.type ELSE "undefined"

isLoose(item) == ~has(item, "type")

(* o[f] for a string-valued field: "undefined" when the object has no f. *)
field(o, f) == IF has(o, f) THEN o[f] ELSE "undefined"

sourceOf(c) == field(c, "source")

cardsOf(item) == IF has(item, "cards") THEN item.cards ELSE <<item>>

sameCard(a, b) == a.rank = b.rank /\ a.suit = b.suit

(* { ...card, source: s } *)
withSource(c, s) == [f \in (DOMAIN c) \cup {"source"} |-> IF f = "source" THEN s ELSE c[f]]

(* ({ source, ...card }) => card *)
stripSource(c) == [f \in (DOMAIN c) \ {"source"} |-> c[f]]

(***************************************************************************)
(* card-operations.js                                                      *)
(***************************************************************************)
rankValue(rank) ==
    CASE rank = "A" -> 1
      [] rank = "2" -> 2
      [] rank = "3" -> 3
      [] rank = "4" -> 4
      [] rank = "5" -> 5
      [] rank = "6" -> 6
      [] rank = "7" -> 7
      [] rank = "8" -> 8
      [] rank = "9" -> 9
      [] rank = "10" -> 10
      [] OTHER -> 0

Card(rank, suit) == [rank |-> rank, suit |-> suit, value |-> rankValue(rank)]

calculateCardSum(cards) == SumSeq(Map(cards, LAMBDA c : rankValue(c.rank)))

(* Stable insertion of x into a sequence sorted by descending rank value:  *)
(* x goes after every element that is not smaller.                         *)
RECURSIVE insertDesc(_, _)
insertDesc(x, s) ==
    IF s = <<>> THEN <<x>>
    ELSE IF rankValue(Head(s).rank) >= rankValue(x.rank)
         THEN <<Head(s)>> \o insertDesc(x, Tail(s))
         ELSE <<x>> \o s

(* cards.sort((a, b) => rankValue(b.rank) - rankValue(a.rank)), stable. *)
RECURSIVE sortDesc(_)
sortDesc(s) ==
    IF s = <<>> THEN <<>>
    ELSE insertDesc(s[Len(s)], sortDesc(SubSeq(s, 1, Len(s) - 1)))

sortCardsByRank(cards) == sortDesc(cards)

(* removeCardFromHand: null when the card is not in the player's hand,     *)
(* otherwise the hands with the first matching card removed.               *)
removeCardFromHand(playerHands, currentPlayer, card) ==
    LET hand == playerHands[currentPlayer]
        i == FindIndex(hand, LAMBDA c : sameCard(c, card))
    IN  IF i = 0
        THEN [found |-> FALSE]
        ELSE [found |-> TRUE,
              updatedHands |-> [playerHands EXCEPT ![currentPlayer] =
                                  SubSeq(hand, 1, i - 1) \o SubSeq(hand, i + 1, Len(hand))],
              cardRemoved |-> hand[i]]

(* A comparison of table items that matches nothing. *)
sameItem_matchesNothing(item, other) == FALSE

(* Does table item `item` denote the same entity as `other`? *)
sameItem(item, other) ==
    \/ typeOf(item) = "build" /\ typeOf(other) = "build" /\ item.buildId = other.buildId
    \/ typeOf(item) = "temporary_stack" /\ typeOf(other) = "temporary_stack"
         /\ item.stackId = other.stackId
    \/ isLoose(item) /\ isLoose(other) /\ sameCard(item, other)

removeCardsFromTable(tableCards, itemsToRemove) ==
    Filter(tableCards, LAMBDA item : ~Some(itemsToRemove, LAMBDA r : sameItem(item, r)))

createCaptureStack(capturingCard, capturedCards, opponentCard) ==
    capturedCards \o opponentCard \o <<capturingCard>>

(***************************************************************************)
(* algorithms.js                                                           *)
(***************************************************************************)
RECURSIVE sumAt(_, _)
sumAt(vals, S) ==
    IF S = {} THEN 0
    ELSE LET i == CHOOSE j \in S : TRUE IN vals[i] + sumAt(vals, S \ {i})

RECURSIVE partitionFrom(_, _, _)
partitionFrom(vals, idx, target) ==
    IF idx = {} THEN TRUE
    ELSE LET i == CHOOSE j \in idx : \A k \in idx : j <= k
         IN  \E S \in SUBSET (idx \ {i}) :
                /\ sumAt(vals, S \cup {i}) = target
                /\ partitionFrom(vals, idx \ (S \cup {i}), target)

canPartitionIntoSums(cards, target) ==
    LET vals == Map(cards, LAMBDA c : rankValue(c.rank))
    IN  /\ Len(cards) > 0
        /\ target > 0
        /\ SumSeq(vals) % target = 0
        /\ partitionFrom(vals, 1..Len(vals), target)

(***************************************************************************)
(* game-state.js                                                           *)
(***************************************************************************)
nextPlayer(gs) == [gs EXCEPT !.currentPlayer = (gs.currentPlayer + 1) % 2]

(* generateBuildId() and `temp-${Date.now()}`: an id not used before. *)
generateBuildId == clock + 1

(***************************************************************************)
(* validation.js                                                           *)
(***************************************************************************)
hasActiveBuild(tableCards, playerIndex) ==
    Some(tableCards, LAMBDA item :
        /\ typeOf(item) = "build"
        /\ item.owner = playerIndex
        /\ has(item, "isExtendable"))

validateBuild(playerHand, playerCard, buildValue, tableCards, playerIndex) ==
    IF hasActiveBuild(tableCards, playerIndex)
    THEN [valid |-> FALSE, message |-> "one active build"]
    ELSE IF ~Some(playerHand, LAMBDA c :
                /\ rankValue(c.rank) = buildValue
                /\ (c.rank # playerCard.rank \/ c.suit # playerCard.suit))
    THEN [valid |-> FALSE, message |-> "no card to capture it later"]
    ELSE IF Some(tableCards, LAMBDA item :
                /\ typeOf(item) = "build"
                /\ item.owner # playerIndex
                /\ item.value = buildValue)
    THEN [valid |-> FALSE, message |-> "opponent already has one"]
    ELSE [valid |-> TRUE, message |-> ""]

(***************************************************************************)
(* game-actions.js: the reducer.  Every handler maps a game state and a    *)
(* payload to the game state it returns; a rejected action returns its     *)
(* input.  An optional argument is a sequence, empty when it is absent.    *)
(***************************************************************************)
(* handleTrail without the change of turn. *)
handleTrail_keepsTurn(gs, card) ==
    LET removalResult == removeCardFromHand(gs.playerHands, gs.currentPlayer, card)
    IN  IF ~removalResult.found THEN gs
        ELSE [gs EXCEPT
                !.playerHands = removalResult.updatedHands,
                !.tableCards = Append(gs.tableCards, removalResult.cardRemoved)]

handleTrail(gs, card) ==
    LET removalResult == removeCardFromHand(gs.playerHands, gs.currentPlayer, card)
    IN  IF ~removalResult.found THEN gs
        ELSE nextPlayer([gs EXCEPT
                !.playerHands = removalResult.updatedHands,
                !.tableCards = Append(gs.tableCards, removalResult.cardRemoved)])

handleBuild(gs, draggedItem, tableCardsInBuild, buildValue, biggerCard, smallerCard) ==
    LET currentPlayer == gs.currentPlayer
        playerCard == draggedItem.card
        validation == validateBuild(gs.playerHands[currentPlayer], playerCard, buildValue,
                                    gs.tableCards, currentPlayer)
        removalResult == removeCardFromHand(gs.playerHands, currentPlayer, playerCard)
        fromTable == draggedItem.source = "table"
        newPlayerHands == IF fromTable THEN gs.playerHands ELSE removalResult.updatedHands
        tempTableCards == IF fromTable
                          THEN removeCardsFromTable(gs.tableCards, <<playerCard>>)
                          ELSE gs.tableCards
        initialBuildCards == IF biggerCard # <<>> /\ smallerCard # <<>>
                             THEN biggerCard \o smallerCard
                             ELSE Append(sortCardsByRank(tableCardsInBuild), playerCard)
        newBuild == [buildId |-> generateBuildId, type |-> "build",
                     cards |-> initialBuildCards, value |-> buildValue,
                     owner |-> currentPlayer, isExtendable |-> TRUE]
        finalTableCards == Append(removeCardsFromTable(tempTableCards, tableCardsInBuild),
                                  newBuild)
    IN  IF ~validation.valid THEN gs
        ELSE IF ~fromTable /\ ~removalResult.found THEN gs
        ELSE nextPlayer([gs EXCEPT !.playerHands = newPlayerHands,
                                   !.tableCards = finalTableCards])

handleReinforceBuildWithStack(gs, stack, targetBuild) ==
    LET cardsForPartition == Map(stack.cards, stripSource)
        newBuild == [buildId |-> generateBuildId, type |-> "build",
                     cards |-> targetBuild.cards \o cardsForPartition,
                     value |-> targetBuild.value,
                     owner |-> gs.currentPlayer, isExtendable |-> FALSE]
        finalTableCards == Append(removeCardsFromTable(gs.tableCards, <<targetBuild, stack>>),
                                  newBuild)
    IN  nextPlayer([gs EXCEPT !.tableCards = finalTableCards])

(* otherCardsInBuild is a sequence of combinations, each a sequence of cards. *)
handleBaseBuild(gs, draggedItem, baseCard, otherCardsInBuild) ==
    LET currentPlayer == gs.currentPlayer
        playerCard == draggedItem.card
        fromTable == draggedItem.source = "table"
        removalResult == removeCardFromHand(gs.playerHands, currentPlayer, playerCard)
        newPlayerHands == IF fromTable THEN gs.playerHands ELSE removalResult.updatedHands
        newTableCards == IF fromTable
                         THEN removeCardsFromTable(gs.tableCards, <<playerCard>>)
                         ELSE gs.tableCards
        cardsToRemoveFromTable == <<baseCard>> \o Flat(otherCardsInBuild)
        buildCards == <<baseCard>> \o Flat(Map(otherCardsInBuild, sortDesc)) \o <<playerCard>>
        newBuild == [buildId |-> generateBuildId, type |-> "build",
                     cards |-> buildCards, value |-> playerCard.value,
                     owner |-> currentPlayer, isExtendable |-> FALSE]
        finalTableCards == Append(removeCardsFromTable(newTableCards, cardsToRemoveFromTable),
                                  newBuild)
    IN  IF ~fromTable /\ ~removalResult.found THEN gs
        ELSE nextPlayer([gs EXCEPT !.playerHands = newPlayerHands,
                                   !.tableCards = finalTableCards])

handleCreateBuildFromStack(gs, draggedItem, stack) ==
    LET handCard == draggedItem.card
        stackValue == calculateCardSum(stack.cards)
        handCardValue == rankValue(handCard.rank)
        isReinforce == stackValue = handCardValue
        newBuildValue == IF isReinforce THEN stackValue ELSE stackValue + handCardValue
        allCardsInBuild == Append(stack.cards, handCard)
        newBuild == [buildId |-> generateBuildId, type |-> "build",
                     cards |-> allCardsInBuild, value |-> newBuildValue,
                     owner |-> gs.currentPlayer, isExtendable |-> ~isReinforce]
        removalResult == removeCardFromHand(gs.playerHands, gs.currentPlayer, handCard)
        newTableCards == Append(removeCardsFromTable(gs.tableCards, <<stack>>), newBuild)
    IN  IF ~removalResult.found THEN gs
        ELSE nextPlayer([gs EXCEPT !.playerHands = removalResult.updatedHands,
                                   !.tableCards = newTableCards])

handleAddToOpponentBuild(gs, draggedItem, buildToAddTo) ==
    LET playerCard == draggedItem.card
        fromTable == draggedItem.source = "table"
        newBuildValue == buildToAddTo.value + rankValue(playerCard.rank)
        sortedCards == sortDesc(Append(buildToAddTo.cards, playerCard))
        newBuild == [buildId |-> generateBuildId, type |-> "build",
                     cards |-> sortedCards, value |-> newBuildValue,
                     owner |-> gs.currentPlayer, isExtendable |-> Len(sortedCards) < 5]
        removalResult == removeCardFromHand(gs.playerHands, gs.currentPlayer, playerCard)
        newPlayerHands == IF fromTable THEN gs.playerHands ELSE removalResult.updatedHands
        newTableCards == IF fromTable
                         THEN removeCardsFromTable(gs.tableCards, <<playerCard>>)
                         ELSE gs.tableCards
        finalTableCards == Append(removeCardsFromTable(newTableCards, <<buildToAddTo>>),
                                  newBuild)
    IN  IF ~fromTable /\ ~removalResult.found THEN gs
        ELSE nextPlayer([gs EXCEPT !.playerHands = newPlayerHands,
                                   !.tableCards = finalTableCards])

handleAddToOwnBuild(gs, draggedItem, buildToAddTo) ==
    LET playerCard == draggedItem.card
        isReinforce == rankValue(playerCard.rank) = buildToAddTo.value
        newBuildValue == IF isReinforce THEN buildToAddTo.value
                         ELSE buildToAddTo.value + rankValue(playerCard.rank)
        newBuild == [buildToAddTo EXCEPT !.value = newBuildValue,
                                         !.cards = Append(buildToAddTo.cards, playerCard),
                                         !.isExtendable = ~isReinforce]
        newTableCards == Append(
            Filter(gs.tableCards, LAMBDA b :
                ~(has(b, "buildId") /\ b.buildId = buildToAddTo.buildId)),
            newBuild)
        removalResult == removeCardFromHand(gs.playerHands, gs.currentPlayer, playerCard)
    IN  IF ~removalResult.found THEN gs
        ELSE nextPlayer([gs EXCEPT !.tableCards = newTableCards,
                                   !.playerHands = removalResult.updatedHands])

handleCapture(gs, draggedItem, selectedTableCards, opponentCard) ==
    LET currentPlayer == gs.currentPlayer
        tableCards == gs.tableCards
        selectedCard == draggedItem.card
        source == draggedItem.source
        ownIndex == FindIndex(tableCards, LAMBDA item :
                        typeOf(item) = "build" /\ item.owner = currentPlayer)
        playerOwnBuild == tableCards[ownIndex]
        isTargetingBuild == Some(selectedTableCards, LAMBDA item : typeOf(item) = "build")
        potentialStackCards == <<selectedCard>> \o Flat(Map(selectedTableCards, cardsOf))
        removalResult == removeCardFromHand(gs.playerHands, currentPlayer, selectedCard)
        (* implicit add to the player's own build *)
        reinforcedBuild == [buildId |-> generateBuildId, type |-> "build",
                            cards |-> playerOwnBuild.cards \o potentialStackCards,
                            value |-> playerOwnBuild.value,
                            owner |-> currentPlayer, isExtendable |-> FALSE]
        reinforcedTable == Append(
            removeCardsFromTable(tableCards, <<playerOwnBuild>> \o selectedTableCards),
            reinforcedBuild)
        (* the capture proper *)
        isFinalizingStack == Some(selectedTableCards,
                                  LAMBDA item : typeOf(item) = "temporary_stack")
        removesFromHand == source # "table" /\ ~isFinalizingStack
        newPlayerHands == IF removesFromHand THEN removalResult.updatedHands
                          ELSE gs.playerHands
        actualCardUsed == IF removesFromHand THEN removalResult.cardRemoved ELSE selectedCard
        newTableCards == IF source = "table"
                         THEN removeCardsFromTable(tableCards, <<selectedCard>>)
                         ELSE tableCards
        finalTableCards == Filter(newTableCards, LAMBDA item :
            ~Some(selectedTableCards, LAMBDA capturedItem : sameItem(item, capturedItem)))
        opponentIndex == 1 - currentPlayer
        clearedCaptures ==
            IF opponentCard = <<>> THEN gs.playerCaptures
            ELSE [gs.playerCaptures EXCEPT ![opponentIndex] =
                    Filter(Map(@, LAMBDA group :
                               Filter(group, LAMBDA card : ~sameCard(card, opponentCard[1]))),
                           LAMBDA group : Len(group) > 0)]
        allCapturedItems == Flat(Map(selectedTableCards, LAMBDA item :
            IF typeOf(item) \in {"build", "temporary_stack"} THEN item.cards ELSE <<item>>))
        deduplicated == IF isFinalizingStack
                        THEN Filter(allCapturedItems, LAMBDA c :
                                ~(sourceOf(c) = "hand" /\ sameCard(c, selectedCard)))
                        ELSE allCapturedItems
        flattenedCapturedCards == IF source = "table"
                                  THEN Append(deduplicated, actualCardUsed)
                                  ELSE deduplicated
        capturingCardForStack == IF source = "hand" THEN actualCardUsed ELSE selectedCard
        capturedGroup == createCaptureStack(capturingCardForStack, flattenedCapturedCards,
                                            opponentCard)
        finalPlayerCaptures == [clearedCaptures EXCEPT ![currentPlayer] =
                                    Append(@, capturedGroup)]
    IN  IF /\ ownIndex # 0 /\ source = "hand" /\ opponentCard = <<>> /\ ~isTargetingBuild
           /\ canPartitionIntoSums(potentialStackCards, playerOwnBuild.value)
        THEN IF ~removalResult.found THEN gs
             ELSE nextPlayer([gs EXCEPT !.playerHands = removalResult.updatedHands,
                                        !.tableCards = reinforcedTable])
        ELSE IF removesFromHand /\ ~removalResult.found THEN gs
        ELSE nextPlayer([gs EXCEPT !.playerHands = newPlayerHands,
                                   !.tableCards = finalTableCards,
                                   !.playerCaptures = finalPlayerCaptures,
                                   !.lastCapturer = currentPlayer])

(* Deals from the end of the deck (Array.prototype.pop), alternately. *)
RECURSIVE dealAlternately(_, _, _)
dealAlternately(hands, deck, i) ==
    IF i = 0 THEN [hands |-> hands, deck |-> deck]
    ELSE LET h0 == IF Len(deck) > 0
                   THEN [hands EXCEPT ![0] = Append(@, deck[Len(deck)])] ELSE hands
             d0 == IF Len(deck) > 0 THEN SubSeq(deck, 1, Len(deck) - 1) ELSE deck
             h1 == IF Len(d0) > 0
                   THEN [h0 EXCEPT ![1] = Append(@, d0[Len(d0)])] ELSE h0
             d1 == IF Len(d0) > 0 THEN SubSeq(d0, 1, Len(d0) - 1) ELSE d0
         IN  dealAlternately(h1, d1, i - 1)

CardsPerRound == 10

MinDeckForRound2 == 20

(* startNextRound dealing ten cards to player 0, then ten to player 1. *)
startNextRound_dealsInBlocks(gs) ==
    IF Len(gs.deck) < MinDeckForRound2 THEN gs
    ELSE LET n == Len(gs.deck)
             block(from) == [k \in 1..CardsPerRound |-> gs.deck[from - k]]
         IN  [gs EXCEPT !.deck = SubSeq(gs.deck, 1, n - 2 * CardsPerRound),
                        !.playerHands[0] = @ \o block(n + 1),
                        !.playerHands[1] = @ \o block(n + 1 - CardsPerRound),
                        !.round = 2]

startNextRound(gs) ==
    IF Len(gs.deck) < MinDeckForRound2 THEN gs
    ELSE LET dealt == dealAlternately(gs.playerHands, gs.deck, CardsPerRound)
         IN  [gs EXCEPT !.deck = dealt.deck, !.playerHands = dealt.hands, !.round = 2]

handleSweep(gs) ==
    IF Len(gs.tableCards) = 0 \/ gs.lastCapturer = null THEN gs
    ELSE LET flattenedTableCards == Flat(Map(gs.tableCards, LAMBDA item :
                 IF typeOf(item) = "build" THEN item.cards ELSE <<item>>))
         IN  [gs EXCEPT !.tableCards = <<>>,
                        !.playerCaptures[gs.lastCapturer] = Append(@, flattenedTableCards)]

count(s, P(_)) == Len(Filter(s, P))

(* 2 points for the larger count, 1 each for a tie above zero. *)
majorityPoints(mine, theirs) ==
    IF mine > theirs THEN 2
    ELSE IF theirs > mine THEN 0
    ELSE IF mine > 0 THEN 1 ELSE 0

calculateScores(playerCaptures) ==
    LET allPlayerCards == [p \in Players |-> Flat(playerCaptures[p])]
        cardCount == [p \in Players |-> Len(allPlayerCards[p])]
        spadeCount == [p \in Players |-> count(allPlayerCards[p], LAMBDA c : field(c, "suit") = "S")]
        total(p) ==
            majorityPoints(cardCount[p], cardCount[1 - p])
            + majorityPoints(spadeCount[p], spadeCount[1 - p])
            + (IF Some(allPlayerCards[p], LAMBDA c :
                       field(c, "rank") = "10" /\ field(c, "suit") = "D")
               THEN 2 ELSE 0)
            + (IF Some(allPlayerCards[p], LAMBDA c :
                       field(c, "rank") = "2" /\ field(c, "suit") = "S")
               THEN 1 ELSE 0)
            + count(allPlayerCards[p], LAMBDA c : field(c, "rank") = "A")
        finalScores == [p \in Players |-> total(p)]
    IN  [scores |-> finalScores,
         winner |-> IF finalScores[0] > finalScores[1] THEN 0
                    ELSE IF finalScores[1] > finalScores[0] THEN 1 ELSE null]

endGame(gs) ==
    LET result == calculateScores(gs.playerCaptures)
    IN  [gs EXCEPT !.scores = result.scores, !.winner = result.winner, !.gameOver = TRUE]

ownsTempStack(tableCards, owner) ==
    Some(tableCards, LAMBDA s : typeOf(s) = "temporary_stack" /\ s.owner = owner)

hasStackId(item, id) == has(item, "stackId") /\ item.stackId = id

(* splice(index, 1, item) *)
replaceAt(s, i, x) == [s EXCEPT ![i] = x]

handleCreateStagingStack(gs, handCard, tableCard) ==
    LET currentPlayer == gs.currentPlayer
        tableCards == gs.tableCards
        targetIndex == FindIndex(tableCards, LAMBDA c : isLoose(c) /\ sameCard(c, tableCard))
        orderedCards == IF rankValue(handCard.rank) < rankValue(tableCard.rank)
                        THEN <<withSource(tableCard, "table"), withSource(handCard, "hand")>>
                        ELSE <<withSource(handCard, "hand"), withSource(tableCard, "table")>>
        newStack == [stackId |-> generateBuildId, type |-> "temporary_stack",
                     cards |-> orderedCards, owner |-> currentPlayer]
        removalResult == removeCardFromHand(gs.playerHands, currentPlayer, handCard)
    IN  IF ownsTempStack(tableCards, currentPlayer) THEN gs
        ELSE IF targetIndex = 0 THEN gs
        ELSE IF ~removalResult.found THEN gs
        ELSE [gs EXCEPT !.playerHands = removalResult.updatedHands,
                        !.tableCards = replaceAt(tableCards, targetIndex, newStack)]

(* The value of a call that throws. *)
TypeError == [exception |-> "TypeError"]

threw(result) == has(result, "exception")

handleAddToStagingStack(gs, handCard, targetStack) ==
    LET removalResult == removeCardFromHand(gs.playerHands, gs.currentPlayer, handCard)
        newStack == [targetStack EXCEPT !.cards = Append(@, withSource(handCard, "hand"))]
        stackIndex == FindIndex(gs.tableCards,
                                LAMBDA s : hasStackId(s, targetStack.stackId))
    IN  IF ~removalResult.found THEN gs
        ELSE IF stackIndex # 0
        THEN [gs EXCEPT !.playerHands = removalResult.updatedHands,
                        !.tableCards = replaceAt(gs.tableCards, stackIndex, newStack)]
        ELSE TypeError    \* assignment to the constant newTableCards

(* The state after a stack's cards went back where their source says:      *)
(* shared by handleDisbandStagingStack and handleCancelStagingStack.       *)
returnStackCards(gs, stack) ==
    LET currentPlayer == gs.currentPlayer
        opponentIndex == 1 - currentPlayer
        handCards == Map(Filter(stack.cards, LAMBDA c : sourceOf(c) = "hand"), stripSource)
        opponentCards == Map(Filter(stack.cards,
                                    LAMBDA c : sourceOf(c) = "opponentCapture"),
                             stripSource)
        newLooseCards == Map(Filter(stack.cards, LAMBDA c :
                                 sourceOf(c) \notin {"hand", "opponentCapture"}),
                             stripSource)
        opponentCaps == gs.playerCaptures[opponentIndex]
        newOpponentCaps ==
            IF Len(opponentCards) = 0 THEN opponentCaps
            ELSE IF Len(opponentCaps) > 0
            THEN [opponentCaps EXCEPT ![Len(opponentCaps)] = @ \o opponentCards]
            ELSE <<opponentCards>>
    IN  [gs EXCEPT
            !.playerHands[currentPlayer] = @ \o handCards,
            !.playerCaptures[opponentIndex] = newOpponentCaps,
            !.tableCards = Filter(gs.tableCards, LAMBDA s : ~hasStackId(s, stack.stackId))
                           \o newLooseCards]

(* The state the caller passed in, as it is once handleDisbandStagingStack  *)
(* or handleCancelStagingStack has returned: opponentCaps is a copy of the *)
(* outer array only, so the push lands in the caller's last capture group. *)
inputAfterReturnStackCards(gs, stack) ==
    LET opponentIndex == 1 - gs.currentPlayer
        opponentCards == Map(Filter(stack.cards,
                                    LAMBDA c : sourceOf(c) = "opponentCapture"),
                             stripSource)
        opponentCaps == gs.playerCaptures[opponentIndex]
    IN  IF Len(opponentCards) > 0 /\ Len(opponentCaps) > 0
        THEN [gs EXCEPT !.playerCaptures[opponentIndex][Len(opponentCaps)] =
                            @ \o opponentCards]
        ELSE gs

(* handleDisbandStagingStack without the end of the turn. *)
handleDisbandStagingStack_keepsTurn(gs, stackToDisband) ==
    returnStackCards(gs, stackToDisband)

handleDisbandStagingStack(gs, stackToDisband) ==
    nextPlayer(returnStackCards(gs, stackToDisband))

handleCancelStagingStack(gs, stackToCancel) ==
    returnStackCards(gs, stackToCancel)

(* handleMergeIntoOwnBuild ending the turn. *)
handleMergeIntoOwnBuild_endsTurn(gs, stack, targetBuild) ==
    LET cardsFromStack == Map(stack.cards, stripSource)
        newBuild == [targetBuild EXCEPT !.cards = @ \o cardsFromStack]
    IN  nextPlayer([gs EXCEPT !.tableCards =
            Append(removeCardsFromTable(gs.tableCards, <<targetBuild, stack>>), newBuild)])

handleMergeIntoOwnBuild(gs, stack, targetBuild) ==
    LET cardsFromStack == Map(stack.cards, stripSource)
        newBuild == [targetBuild EXCEPT !.cards = @ \o cardsFromStack]
    IN  [gs EXCEPT !.tableCards =
            Append(removeCardsFromTable(gs.tableCards, <<targetBuild, stack>>), newBuild)]

handleStageOpponentCard(gs, opponentCard) ==
    LET currentPlayer == gs.currentPlayer
        opponentIndex == 1 - currentPlayer
        opponentCaps == gs.playerCaptures[opponentIndex]
        newOpponentCaps == Filter(
            [i \in 1..Len(opponentCaps) |->
                IF i = Len(opponentCaps)
                THEN SubSeq(opponentCaps[i], 1, Len(opponentCaps[i]) - 1)
                ELSE opponentCaps[i]],
            LAMBDA group : Len(group) > 0)
        newStack == [stackId |-> generateBuildId, type |-> "temporary_stack",
                     cards |-> <<withSource(opponentCard, "opponentCapture")>>,
                     owner |-> currentPlayer]
    IN  IF ownsTempStack(gs.tableCards, currentPlayer) THEN gs
        ELSE [gs EXCEPT !.playerCaptures[opponentIndex] = newOpponentCaps,
                        !.tableCards = Append(gs.tableCards, newStack)]

handleExtendToMerge(gs, handCard, opponentBuild, ownBuild) ==
    LET removalResult == removeCardFromHand(gs.playerHands, gs.currentPlayer, handCard)
        allCards == sortDesc(ownBuild.cards \o opponentBuild.cards \o <<handCard>>)
        newMergedBuild == [ownBuild EXCEPT !.cards = allCards, !.isExtendable = FALSE]
    IN  IF ~removalResult.found THEN gs
        ELSE [gs EXCEPT !.playerHands = removalResult.updatedHands,
                        !.tableCards = Append(
                            removeCardsFromTable(gs.tableCards, <<ownBuild, opponentBuild>>),
                            newMergedBuild)]

(* [...new Set(values)]: first occurrences, in order. *)
RECURSIVE unique(_)
unique(s) ==
    IF s = <<>> THEN <<>>
    ELSE LET init == unique(SubSeq(s, 1, Len(s) - 1))
             x == s[Len(s)]
         IN  IF Some(init, LAMBDA y : y = x) THEN init ELSE Append(init, x)

(* findPossibleBuildsFromStack without Rule 4, the grouping of the cards. *)
findPossibleBuildsFromStack_allValues(stack, playerHand, tableCards, currentPlayer) ==
    LET handCardsInStack == Filter(stack.cards, LAMBDA c : sourceOf(c) = "hand")
        handCardUsed == handCardsInStack[1]
        remainingHand == Filter(playerHand, LAMBDA c :
                            c.rank # handCardUsed.rank \/ c.suit # handCardUsed.suit)
    IN  IF hasActiveBuild(tableCards, currentPlayer) THEN <<>>
        ELSE IF Len(handCardsInStack) # 1 THEN <<>>
        ELSE IF Len(remainingHand) = 0 THEN <<>>
        ELSE unique(Map(remainingHand, LAMBDA c : rankValue(c.rank)))

findPossibleBuildsFromStack(stack, playerHand, tableCards, currentPlayer) ==
    LET handCardsInStack == Filter(stack.cards, LAMBDA c : sourceOf(c) = "hand")
        handCardUsed == handCardsInStack[1]
        remainingHand == Filter(playerHand, LAMBDA c :
                            c.rank # handCardUsed.rank \/ c.suit # handCardUsed.suit)
        potentialBuildValues == unique(Map(remainingHand, LAMBDA c : rankValue(c.rank)))
        cardsToBuildWith == Map(stack.cards, stripSource)
    IN  IF hasActiveBuild(tableCards, currentPlayer) THEN <<>>
        ELSE IF Len(handCardsInStack) # 1 THEN <<>>
        ELSE IF Len(remainingHand) = 0 THEN <<>>
        ELSE Filter(potentialBuildValues,
                    LAMBDA value : canPartitionIntoSums(cardsToBuildWith, value))

(* Returns a game state, or an object with an error or an options field. *)
handleFinalizeStagingStack(gs, stack) ==
    LET currentPlayer == gs.currentPlayer
        possibleBuilds == findPossibleBuildsFromStack(stack, gs.playerHands[currentPlayer],
                                                      gs.tableCards, currentPlayer)
        newBuild == [buildId |-> generateBuildId, type |-> "build",
                     cards |-> Map(stack.cards, stripSource),
                     value |-> possibleBuilds[1],
                     owner |-> currentPlayer, isExtendable |-> TRUE]
        newTableCards == Append(
            Filter(gs.tableCards, LAMBDA s : ~hasStackId(s, stack.stackId)), newBuild)
    IN  IF Len(possibleBuilds) = 0
        THEN [error |-> TRUE, message |-> "no valid build"]
        ELSE IF Len(possibleBuilds) > 1
        THEN [options |-> possibleBuilds, stack |-> stack]
        ELSE nextPlayer([gs EXCEPT !.tableCards = newTableCards])

handleCreateBuildWithValue(gs, stack, buildValue) ==
    LET newBuild == [buildId |-> generateBuildId, type |-> "build",
                     cards |-> Map(stack.cards, stripSource),
                     value |-> buildValue,
                     owner |-> gs.currentPlayer, isExtendable |-> TRUE]
    IN  nextPlayer([gs EXCEPT !.tableCards =
            Append(removeCardsFromTable(gs.tableCards, <<stack>>), newBuild)])

handleStageSingleCardFromHand(gs, card) ==
    LET removalResult == removeCardFromHand(gs.playerHands, gs.currentPlayer, card)
        newStack == [stackId |-> generateBuildId, type |-> "temporary_stack",
                     cards |-> <<withSource(card, "hand")>>, owner |-> gs.currentPlayer]
    IN  IF ownsTempStack(gs.tableCards, gs.currentPlayer) THEN gs
        ELSE IF ~removalResult.found THEN gs
        ELSE [gs EXCEPT !.playerHands = removalResult.updatedHands,
                        !.tableCards = Append(gs.tableCards, newStack)]

handleFinalizeTrail(gs, stack) ==
    LET cardToTrail == stripSource(stack.cards[1])
    IN  nextPlayer([gs EXCEPT !.tableCards =
            Append(Filter(gs.tableCards, LAMBDA s : ~hasStackId(s, stack.stackId)),
                   cardToTrail)])

(* handleReinforceOpponentBuildWithStack leaving the build extendable. *)
handleReinforceOpponentBuildWithStack_staysExtendable(gs, stack, opponentBuild) ==
    LET cardsFromStack == Map(stack.cards, stripSource)
        newBuild == [opponentBuild EXCEPT !.cards = @ \o cardsFromStack]
    IN  [gs EXCEPT !.tableCards =
            Append(removeCardsFromTable(gs.tableCards, <<opponentBuild, stack>>), newBuild)]

handleReinforceOpponentBuildWithStack(gs, stack, opponentBuild) ==
    LET cardsFromStack == Map(stack.cards, stripSource)
        newBuild == [opponentBuild EXCEPT !.cards = @ \o cardsFromStack,
                                          !.isExtendable = FALSE]
    IN  [gs EXCEPT !.tableCards =
            Append(removeCardsFromTable(gs.tableCards, <<opponentBuild, stack>>), newBuild)]

(***************************************************************************)
(* Positions.  The deck is the 40 cards A-10 of four suits; a game deals   *)
(* ten cards to each player and keeps twenty for round 2.  Exploration     *)
(* starts from positions late in round 1, when few cards are left in hand. *)
(***************************************************************************)
C(rank, suit) == Card(rank, suit)

Round2Deck ==
    << C("A", "D"), C("A", "C"), C("2", "D"), C("2", "C"), C("3", "S"),
       C("4", "C"), C("5", "S"), C("6", "C"), C("7", "D"), C("7", "C"),
       C("8", "S"), C("8", "H"), C("8", "C"), C("9", "S"), C("9", "H"),
       C("9", "D"), C("9", "C"), C("10", "H"), C("10", "D"), C("10", "C") >>

BaseState ==
    [ currentPlayer |-> 0,
      playerHands |-> [p \in Players |->
          IF p = 0 THEN << C("2", "S"), C("3", "D"), C("5", "H") >>
                   ELSE << C("3", "C"), C("5", "C"), C("8", "D") >>],
      tableCards |-> << C("2", "H"), C("3", "H"), C("5", "D") >>,
      playerCaptures |-> [p \in Players |->
          IF p = 0 THEN << <<C("A", "H"), C("A", "S")>>, <<C("4", "H"), C("4", "S")>>,
                           <<C("6", "H"), C("6", "S")>> >>
                   ELSE << <<C("7", "H"), C("7", "S")>>,
                           <<C("4", "D"), C("6", "D"), C("10", "S")>> >>],
      deck |-> Round2Deck,
      round |-> 1,
      lastCapturer |-> 1,
      gameOver |-> FALSE,
      scores |-> [p \in Players |-> 0],
      winner |-> null ]

(* Player 0 built 5 by playing 3D on 2H, holding 5H. *)
BuildOf5 ==
    [buildId |-> 0, type |-> "build", cards |-> << C("3", "D"), C("2", "H") >>,
     value |-> 5, owner |-> 0, isExtendable |-> TRUE]

(* Player 1 built 8 by playing 5C on 3H, holding 8D. *)
BuildOf8 ==
    [buildId |-> -1, type |-> "build", cards |-> << C("5", "C"), C("3", "H") >>,
     value |-> 8, owner |-> 1, isExtendable |-> TRUE]

(* After player 0's build: player 1 to move. *)
AfterBuild ==
    [BaseState EXCEPT
        !.currentPlayer = 1,
        !.playerHands[0] = << C("2", "S"), C("5", "H") >>,
        !.tableCards = << C("3", "H"), C("5", "D"), BuildOf5 >>]

(* ... and player 1 trailed 8D: player 0 to move, owning a build. *)
AfterBuildAndTrail ==
    [AfterBuild EXCEPT
        !.currentPlayer = 0,
        !.playerHands[1] = << C("3", "C"), C("5", "C") >>,
        !.tableCards = << C("3", "H"), C("5", "D"), BuildOf5, C("8", "D") >>]

(* ... or player 1 built 8: player 0 to move, each player owning a build. *)
AfterTwoBuilds ==
    [AfterBuild EXCEPT
        !.currentPlayer = 0,
        !.playerHands[1] = << C("3", "C"), C("8", "D") >>,
        !.tableCards = << C("5", "D"), BuildOf5, BuildOf8 >>]

(* The last card of round 1: every other card of the hands was trailed. *)
EndOfRound1 ==
    [BaseState EXCEPT
        !.currentPlayer = 1,
        !.playerHands = [p \in Players |-> IF p = 0 THEN <<>> ELSE << C("8", "D") >>],
        !.tableCards = << C("2", "H"), C("3", "H"), C("5", "D"), C("2", "S"), C("3", "C"),
                          C("3", "D"), C("5", "C"), C("5", "H") >>]

(* The last card of round 2: the deck is dealt and mostly captured. *)
EndOfRound2 ==
    [EndOfRound1 EXCEPT
        !.round = 2,
        !.deck = <<>>,
        !.tableCards = << C("2", "H"), C("3", "H"), C("5", "D") >>,
        !.playerCaptures[0] = @ \o << SubSeq(Round2Deck, 1, 10),
                                      << C("2", "S"), C("3", "C"), C("5", "C") >> >>,
        !.playerCaptures[1] = @ \o << SubSeq(Round2Deck, 11, 20),
                                      << C("3", "D"), C("5", "H") >> >>]

Positions ==
    {BaseState, AfterBuild, AfterBuildAndTrail, AfterTwoBuilds, EndOfRound1, EndOfRound2}

Init ==
    /\ gameState \in Positions
    /\ last = [action |-> "init", player |-> gameState.currentPlayer, args |-> <<>>]
    /\ clock = 0
    /\ TwoConnected

(***************************************************************************)
(* Payloads.  A caller names cards and table entities by value; the sets   *)
(* below are the payloads a client can send in the current state: what it  *)
(* sees, plus a card it does not hold, a card that has left the table and  *)
(* a build that was captured meanwhile.                                    *)
(***************************************************************************)
Range(s) == {s[i] : i \in 1..Len(s)}

hand == gameState.playerHands[gameState.currentPlayer]

opponentHand == gameState.playerHands[1 - gameState.currentPlayer]

HandPayloads == Range(hand) \cup (IF opponentHand = <<>> THEN {} ELSE {opponentHand[1]})

LooseOnTable == {t \in Range(gameState.tableCards) : isLoose(t)}

BuildsOnTable == {t \in Range(gameState.tableCards) : typeOf(t) = "build"}

StacksOnTable == {t \in Range(gameState.tableCards) : typeOf(t) = "temporary_stack"}

AbsentCard == C("9", "S")

StaleBuild ==
    [buildId |-> -2, type |-> "build", cards |-> << C("4", "C"), C("A", "D") >>,
     value |-> 5, owner |-> gameState.currentPlayer, isExtendable |-> TRUE]

(* A stack the client still shows after it was cancelled. *)
StaleStack ==
    [stackId |-> -3, type |-> "temporary_stack",
     cards |-> << withSource(C("4", "C"), "table"), withSource(C("A", "D"), "table") >>,
     owner |-> gameState.currentPlayer]

fromHand(card) == [card |-> card, source |-> "hand"]

(* Selections of one or two table entities, in table order. *)
Selections ==
    LET t == gameState.tableCards
    IN  {<<t[i]>> : i \in 1..Len(t)}
        \cup {<<t[p[1]], t[p[2]]>> : p \in {q \in (1..Len(t)) \X (1..Len(t)) :
                    q[1] < q[2] /\ isLoose(t[q[1]]) /\ isLoose(t[q[2]])}}

isGameState(result) == has(result, "currentPlayer")

(* Exploration stops after MaxSteps accepted actions. *)
Ready == clock < MaxSteps

(* A caller keeps the returned state; a call that returns its input, an   *)
(* error or options object, or throws, leaves the state as it was.         *)
Apply(name, args, result) ==
    IF isGameState(result) /\ result # gameState
    THEN /\ gameState' = result
         /\ last' = [action |-> name, player |-> gameState.currentPlayer, args |-> args]
         /\ clock' = clock + 1
         /\ UNCHANGED <<players, emitted, playerNumber>>
    ELSE UNCHANGED vars

(***************************************************************************)
(* The engine: each exported handler of game-actions.js, called with a     *)
(* payload.                                                                *)
(***************************************************************************)
Trail ==
    /\ Ready
    /\ \E card \in HandPayloads :
        Apply("handleTrail", [card |-> card], handleTrail(gameState, card))

(* A sum build names the bigger and the smaller card; a same-value build  *)
(* names neither.                                                         *)
Build ==
    /\ Ready
    /\ \E card \in HandPayloads, target \in LooseOnTable, sum \in BOOLEAN :
        LET hv == rankValue(card.rank)
            tv == rankValue(target.rank)
            buildValue == IF sum THEN hv + tv ELSE hv
            bigger == IF ~sum THEN <<>> ELSE IF hv >= tv THEN <<card>> ELSE <<target>>
            smaller == IF ~sum THEN <<>> ELSE IF hv >= tv THEN <<target>> ELSE <<card>>
        IN  /\ sum \/ hv = tv
            /\ Apply("handleBuild",
                     [card |-> card, targets |-> <<target>>, buildValue |-> buildValue],
                     handleBuild(gameState, fromHand(card), <<target>>, buildValue,
                                 bigger, smaller))

BaseBuild ==
    /\ Ready
    /\ \E card \in HandPayloads, baseCard \in LooseOnTable,
       others \in {<<>>} \cup {<<sel>> : sel \in {x \in Selections : Len(x) = 2}} :
        /\ \A i \in 1..Len(others) : ~Some(others[i], LAMBDA o : sameCard(o, baseCard))
        /\ Apply("handleBaseBuild",
                 [card |-> card, baseCard |-> baseCard, others |-> others],
                 handleBaseBuild(gameState, fromHand(card), baseCard, others))

CreateBuildFromStack ==
    /\ Ready
    /\ \E card \in HandPayloads, stack \in StacksOnTable :
        Apply("handleCreateBuildFromStack", [card |-> card, stack |-> stack],
              handleCreateBuildFromStack(gameState, fromHand(card), stack))

AddToOpponentBuild ==
    /\ Ready
    /\ \E card \in HandPayloads, build \in BuildsOnTable :
        Apply("handleAddToOpponentBuild", [card |-> card, build |-> build],
              handleAddToOpponentBuild(gameState, fromHand(card), build))

AddToOwnBuild ==
    /\ Ready
    /\ \E card \in HandPayloads, build \in BuildsOnTable \cup {StaleBuild} :
        Apply("handleAddToOwnBuild", [card |-> card, build |-> build],
              handleAddToOwnBuild(gameState, fromHand(card), build))

Capture ==
    /\ Ready
    /\ \E card \in HandPayloads, selected \in Selections \cup {<<AbsentCard>>} :
        Apply("handleCapture", [card |-> card, selected |-> selected],
              handleCapture(gameState, fromHand(card), selected, <<>>))

ReinforceBuildWithStack ==
    /\ Ready
    /\ \E stack \in StacksOnTable, build \in BuildsOnTable :
        Apply("handleReinforceBuildWithStack", [stack |-> stack, build |-> build],
              handleReinforceBuildWithStack(gameState, stack, build))

CreateStagingStack ==
    /\ Ready
    /\ \E card \in HandPayloads, target \in LooseOnTable \cup {AbsentCard} :
        Apply("handleCreateStagingStack", [card |-> card, target |-> target],
              handleCreateStagingStack(gameState, card, target))

AddToStagingStack ==
    /\ Ready
    /\ \E card \in HandPayloads, stack \in StacksOnTable \cup {StaleStack} :
        Apply("handleAddToStagingStack", [card |-> card, stack |-> stack],
              handleAddToStagingStack(gameState, card, stack))

DisbandStagingStack ==
    /\ Ready
    /\ \E stack \in StacksOnTable :
        Apply("handleDisbandStagingStack", [stack |-> stack],
              handleDisbandStagingStack(gameState, stack))

CancelStagingStack ==
    /\ Ready
    /\ \E stack \in StacksOnTable :
        Apply("handleCancelStagingStack", [stack |-> stack],
              handleCancelStagingStack(gameState, stack))

MergeIntoOwnBuild ==
    /\ Ready
    /\ \E stack \in StacksOnTable, build \in BuildsOnTable :
        Apply("handleMergeIntoOwnBuild", [stack |-> stack, build |-> build],
              handleMergeIntoOwnBuild(gameState, stack, build))

(* The card a player can take is the top card of the opponent's pile. *)
topOfPile(captures) ==
    IF captures = <<>> THEN {}
    ELSE LET group == captures[Len(captures)] IN {group[Len(group)]}

(* The opponent's cards a caller can name: the top of the pile, and the    *)
(* card at its bottom.                                                     *)
OpponentPilePayloads ==
    LET captures == gameState.playerCaptures[1 - gameState.currentPlayer]
    IN  topOfPile(captures) \cup (IF captures = <<>> THEN {} ELSE {captures[1][1]})

StageOpponentCard ==
    /\ Ready
    /\ \E card \in OpponentPilePayloads :
        Apply("handleStageOpponentCard", [card |-> card],
              handleStageOpponentCard(gameState, card))

ExtendToMerge ==
    /\ Ready
    /\ \E card \in HandPayloads, opponentBuild \in BuildsOnTable, ownBuild \in BuildsOnTable :
        /\ opponentBuild # ownBuild
        /\ Apply("handleExtendToMerge",
                 [card |-> card, opponentBuild |-> opponentBuild, ownBuild |-> ownBuild],
                 handleExtendToMerge(gameState, card, opponentBuild, ownBuild))

FinalizeStagingStack ==
    /\ Ready
    /\ \E stack \in StacksOnTable :
        Apply("handleFinalizeStagingStack", [stack |-> stack],
              handleFinalizeStagingStack(gameState, stack))

(* The value a player may choose: the stack's sum or a value held in hand. *)
CreateBuildWithValue ==
    /\ Ready
    /\ \E stack \in StacksOnTable :
      \E buildValue \in {calculateCardSum(stack.cards)}
                        \cup {rankValue(c.rank) : c \in Range(hand)} :
        Apply("handleCreateBuildWithValue", [stack |-> stack, buildValue |-> buildValue],
              handleCreateBuildWithValue(gameState, stack, buildValue))

StageSingleCardFromHand ==
    /\ Ready
    /\ \E card \in HandPayloads :
        Apply("handleStageSingleCardFromHand", [card |-> card],
              handleStageSingleCardFromHand(gameState, card))

FinalizeTrail ==
    /\ Ready
    /\ \E stack \in StacksOnTable :
        Apply("handleFinalizeTrail", [stack |-> stack], handleFinalizeTrail(gameState, stack))

ReinforceOpponentBuildWithStack ==
    /\ Ready
    /\ \E stack \in StacksOnTable, build \in BuildsOnTable :
        Apply("handleReinforceOpponentBuildWithStack", [stack |-> stack, build |-> build],
              handleReinforceOpponentBuildWithStack(gameState, stack, build))

(* useGameActions' effect: when both hands are empty, round 1 is followed  *)
(* by round 2 and round 2 by the sweep and the end of the game.            *)
roundIsOver ==
    /\ Ready
    /\ ~gameState.gameOver
    /\ Len(gameState.playerHands[0]) = 0
    /\ Len(gameState.playerHands[1]) = 0

StartNextRound ==
    /\ roundIsOver
    /\ gameState.round = 1
    /\ startNextRound(gameState) # gameState
    /\ gameState' = startNextRound(gameState)
    /\ last' = [action |-> "startNextRound", player |-> gameState.currentPlayer,
                args |-> [round |-> 1]]
    /\ UNCHANGED clock                       \* the effect's step is no move
    /\ UNCHANGED <<players, emitted, playerNumber>>

EndGame ==
    /\ roundIsOver
    /\ gameState.round = 2
    /\ LET finalState == IF Len(gameState.tableCards) > 0 /\ gameState.lastCapturer # null
                         THEN handleSweep(gameState) ELSE gameState
       IN  /\ gameState' = endGame(finalState)
           /\ last' = [action |-> "endGame", player |-> gameState.currentPlayer,
                       args |-> [swept |-> finalState # gameState]]
           /\ UNCHANGED clock
           /\ UNCHANGED <<players, emitted, playerNumber>>

Next ==
    \/ Trail
    \/ Build
    \/ BaseBuild
    \/ CreateBuildFromStack
    \/ AddToOpponentBuild
    \/ AddToOwnBuild
    \/ Capture
    \/ ReinforceBuildWithStack
    \/ CreateStagingStack
    \/ AddToStagingStack
    \/ DisbandStagingStack
    \/ CancelStagingStack
    \/ MergeIntoOwnBuild
    \/ StageOpponentCard
    \/ ExtendToMerge
    \/ FinalizeStagingStack
    \/ CreateBuildWithValue
    \/ StageSingleCardFromHand
    \/ FinalizeTrail
    \/ ReinforceOpponentBuildWithStack
    \/ StartNextRound
    \/ EndGame

Spec == Init /\ [][Next]_vars

(***************************************************************************)
(* The server (index.js): two connected players, the game started.  A     *)
(* 'game-action' message from the player whose turn it is not is answered  *)
(* with an error; otherwise the switch calls the handler of the action's   *)
(* type with the payload's fields and the result becomes the game state.   *)
(* The clients name cards and entities of the state they were sent.        *)
(***************************************************************************)
gameAction(sender, name, args, result) ==
    IF sender # gameState.currentPlayer
    THEN UNCHANGED vars                      \* "It's not your turn."
    ELSE IF threw(result)
    THEN UNCHANGED vars                      \* caught: 'action-error'
    ELSE Apply(name, args, result)

(* A client that sends two actions in a row computes both payloads from    *)
(* the game-update it last received: the second names the builds of the    *)
(* first payload, as they were before the first action was applied.        *)
SnapshotBuilds ==
    IF last.player # gameState.currentPlayer THEN {}
    ELSE {last.args[f] : f \in DOMAIN last.args \cap {"build", "opponentBuild", "ownBuild"}}
         \ BuildsOnTable

ServerTrail ==
    /\ Ready
    /\ \E sender \in Players, card \in HandPayloads :
        gameAction(sender, "handleTrail", [card |-> card], handleTrail(gameState, card))

(* cardsToCapture = selectedTableCards || (targetCard ? [targetCard] : []) *)
ServerCapture ==
    /\ Ready
    /\ \E sender \in Players, card \in HandPayloads,
          selected \in Selections \cup {<<>>} :
        gameAction(sender, "handleCapture", [card |-> card, selected |-> selected],
                   handleCapture(gameState, fromHand(card), selected, <<>>))

ServerCreateStagingStack ==
    /\ Ready
    /\ \E sender \in Players, card \in HandPayloads,
          target \in LooseOnTable :
        gameAction(sender, "handleCreateStagingStack", [card |-> card, target |-> target],
                   handleCreateStagingStack(gameState, card, target))

ServerBuild ==
    /\ Ready
    /\ \E sender \in Players, card \in HandPayloads, target \in LooseOnTable,
          sum \in BOOLEAN :
        LET hv == rankValue(card.rank)
            tv == rankValue(target.rank)
            buildValue == IF sum THEN hv + tv ELSE hv
            bigger == IF ~sum THEN <<>> ELSE IF hv >= tv THEN <<card>> ELSE <<target>>
            smaller == IF ~sum THEN <<>> ELSE IF hv >= tv THEN <<target>> ELSE <<card>>
        IN  /\ sum \/ hv = tv
            /\ gameAction(sender, "handleBuild",
                     [card |-> card, targets |-> <<target>>, buildValue |-> buildValue],
                     handleBuild(gameState, fromHand(card), <<target>>, buildValue,
                                 bigger, smaller))

ServerAddToOpponentBuild ==
    /\ Ready
    /\ \E sender \in Players, card \in HandPayloads, build \in BuildsOnTable :
        gameAction(sender, "handleAddToOpponentBuild", [card |-> card, build |-> build],
                   handleAddToOpponentBuild(gameState, fromHand(card), build))

ServerAddToOwnBuild ==
    /\ Ready
    /\ \E sender \in Players, card \in HandPayloads,
          build \in BuildsOnTable \cup SnapshotBuilds :
        gameAction(sender, "handleAddToOwnBuild", [card |-> card, build |-> build],
                   handleAddToOwnBuild(gameState, fromHand(card), build))

ServerBaseBuild ==
    /\ Ready
    /\ \E sender \in Players, card \in HandPayloads, baseCard \in LooseOnTable,
          others \in {<<>>} \cup {<<sel>> : sel \in {x \in Selections : Len(x) = 2}} :
        /\ \A i \in 1..Len(others) : ~Some(others[i], LAMBDA o : sameCard(o, baseCard))
        /\ gameAction(sender, "handleBaseBuild",
                 [card |-> card, baseCard |-> baseCard, others |-> others],
                 handleBaseBuild(gameState, fromHand(card), baseCard, others))

ServerCreateBuildFromStack ==
    /\ Ready
    /\ \E sender \in Players, card \in HandPayloads, stack \in StacksOnTable :
        gameAction(sender, "handleCreateBuildFromStack", [card |-> card, stack |-> stack],
                   handleCreateBuildFromStack(gameState, fromHand(card), stack))

ServerExtendToMerge ==
    /\ Ready
    /\ \E sender \in Players, card \in HandPayloads,
          opponentBuild \in BuildsOnTable \cup SnapshotBuilds,
          ownBuild \in BuildsOnTable \cup SnapshotBuilds :
        /\ opponentBuild # ownBuild
        /\ gameAction(sender, "handleExtendToMerge",
                 [card |-> card, opponentBuild |-> opponentBuild, ownBuild |-> ownBuild],
                 handleExtendToMerge(gameState, card, opponentBuild, ownBuild))

ServerReinforceOpponentBuild ==
    /\ Ready
    /\ \E sender \in Players, stack \in StacksOnTable, build \in BuildsOnTable :
        gameAction(sender, "handleReinforceOpponentBuildWithStack",
                   [stack |-> stack, build |-> build],
                   handleReinforceOpponentBuildWithStack(gameState, stack, build))

ServerCreateBuildWithValue ==
    /\ Ready
    /\ \E sender \in Players, stack \in StacksOnTable :
        \E buildValue \in {calculateCardSum(stack.cards)}
                          \cup {rankValue(c.rank) : c \in Range(hand)} :
            gameAction(sender, "handleCreateBuildWithValue",
                       [stack |-> stack, buildValue |-> buildValue],
                       handleCreateBuildWithValue(gameState, stack, buildValue))

(* The server deals no second round: its games stay in round 1. *)
InitServer ==
    /\ gameState \in Positions \ {EndOfRound2}
    /\ last = [action |-> "init", player |-> gameState.currentPlayer, args |-> <<>>]
    /\ clock = 0
    /\ TwoConnected

NextServer ==
    \/ ServerTrail
    \/ ServerCapture
    \/ ServerCreateStagingStack
    \/ ServerBuild
    \/ ServerAddToOpponentBuild
    \/ ServerAddToOwnBuild
    \/ ServerBaseBuild
    \/ ServerCreateBuildFromStack
    \/ ServerExtendToMerge
    \/ ServerReinforceOpponentBuild
    \/ ServerCreateBuildWithValue

SpecServer == InitServer /\ [][NextServer]_vars

(* The socket handler runs on every game-action it receives, and a client  *)
(* whose turn it is keeps sending one.                                     *)
SpecServerLive == SpecServer /\ WF_vars(NextServer)

(***************************************************************************)
(* The server's connections (index.js): sockets join the players list in   *)
(* the order they connect, the game starts when the list reaches two, a    *)
(* disconnect removes the socket and drops the game when fewer than two    *)
(* remain.  A 'game-action' passes the two guards before the switch.       *)
(***************************************************************************)

(* players.findIndex(p => p.id === socket.id) *)
findIndexOfSocket(list, socket) ==
    IF \E i \in 1..Len(list) : list[i] = socket
    THEN (CHOOSE i \in 1..Len(list) :
              list[i] = socket /\ \A j \in 1..(i - 1) : list[j] # socket) - 1
    ELSE -1

emit(to, event, data) == [to |-> to, event |-> event, data |-> data]

(* let gameState = null: the server's variable while no game is running. *)
noGame == [state |-> "null"]

(* io.on('connection') *)
Connection ==
    \E socket \in Sockets \ Range(players) :
        LET joined == Append(players, socket)
            assigned == emit(socket, "player-number", Len(joined) - 1)
        IN  /\ players' = joined
            /\ IF Len(joined) = 2
               THEN /\ gameState' = BaseState   \* initializeGame(): a fresh deal
                    /\ emitted' = << assigned >>
                                  \o [i \in 1..2 |-> emit(joined[i], "game-start", i - 1)]
                    /\ playerNumber' = [s \in Sockets |->
                                          IF findIndexOfSocket(joined, s) >= 0
                                          THEN findIndexOfSocket(joined, s)
                                          ELSE playerNumber[s]]
                    /\ last' = [action |-> "init", player |-> BaseState.currentPlayer,
                                args |-> <<>>]
                    /\ clock' = 0
               ELSE /\ emitted' = << assigned >>
                    /\ UNCHANGED <<gameState, last, clock, playerNumber>>

(* socket.on('disconnect'); the client that left keeps nothing. *)
Disconnect ==
    \E socket \in Range(players) :
        LET remaining == Filter(players, LAMBDA p : p # socket)
        IN  /\ players' = remaining
            /\ gameState' = IF Len(remaining) < 2 THEN noGame ELSE gameState
            /\ playerNumber' = [playerNumber EXCEPT ![socket] = null]
            /\ emitted' = <<>>
            /\ UNCHANGED <<last, clock>>

(* The cases of the switch on action.type, each with the handler call it   *)
(* makes for a payload.                                                    *)
gameActionCalls ==
    LET call(name, args, result) == [name |-> name, args |-> args, result |-> result]
    IN  {call("handleTrail", [card |-> card], handleTrail(gameState, card)) :
            card \in HandPayloads}
        \cup
        {call("handleCapture", [card |-> x[1], selected |-> x[2]],
              handleCapture(gameState, fromHand(x[1]), x[2], <<>>)) :
            x \in HandPayloads \X (Selections \cup {<<>>})}
        \cup
        {call("handleCreateStagingStack", [card |-> x[1], target |-> x[2]],
              handleCreateStagingStack(gameState, x[1], x[2])) :
            x \in HandPayloads \X LooseOnTable}
        \cup
        {call("handleBuild",
              [card |-> x[1], targets |-> << x[2] >>,
               buildValue |-> rankValue(x[1].rank) + rankValue(x[2].rank)],
              handleBuild(gameState, fromHand(x[1]), << x[2] >>,
                          rankValue(x[1].rank) + rankValue(x[2].rank),
                          IF rankValue(x[1].rank) >= rankValue(x[2].rank)
                          THEN << x[1] >> ELSE << x[2] >>,
                          IF rankValue(x[1].rank) >= rankValue(x[2].rank)
                          THEN << x[2] >> ELSE << x[1] >>)) :
            x \in HandPayloads \X LooseOnTable}
        \cup
        {call("handleAddToOpponentBuild", [card |-> x[1], build |-> x[2]],
              handleAddToOpponentBuild(gameState, fromHand(x[1]), x[2])) :
            x \in HandPayloads \X BuildsOnTable}
        \cup
        {call("handleAddToOwnBuild", [card |-> x[1], build |-> x[2]],
              handleAddToOwnBuild(gameState, fromHand(x[1]), x[2])) :
            x \in HandPayloads \X BuildsOnTable}
        \cup
        {call("handleBaseBuild", [card |-> x[1], baseCard |-> x[2], others |-> <<>>],
              handleBaseBuild(gameState, fromHand(x[1]), x[2], <<>>)) :
            x \in HandPayloads \X LooseOnTable}
        \cup
        {call("handleCreateBuildFromStack", [card |-> x[1], stack |-> x[2]],
              handleCreateBuildFromStack(gameState, fromHand(x[1]), x[2])) :
            x \in HandPayloads \X StacksOnTable}
        \cup
        {call("handleExtendToMerge",
              [card |-> x[1], opponentBuild |-> x[2], ownBuild |-> x[3]],
              handleExtendToMerge(gameState, x[1], x[2], x[3])) :
            x \in {y \in HandPayloads \X BuildsOnTable \X BuildsOnTable : y[2] # y[3]}}
        \cup
        {call("handleReinforceOpponentBuildWithStack", [stack |-> x[1], build |-> x[2]],
              handleReinforceOpponentBuildWithStack(gameState, x[1], x[2])) :
            x \in StacksOnTable \X BuildsOnTable}
        \cup
        {call("handleCreateBuildWithValue", [stack |-> stack, buildValue |-> calculateCardSum(stack.cards)],
              handleCreateBuildWithValue(gameState, stack, calculateCardSum(stack.cards))) :
            stack \in StacksOnTable}

(* What the 'game-action' handler does for a socket once a game is running *)
(* with two players: the server's next state and the messages it sends.    *)
onGameAction_noTurnCheck(socket, call) ==
    [gameState |-> IF threw(call.result) THEN gameState ELSE call.result,
     emitted |-> << emit("all", "game-update",
                            IF threw(call.result) THEN gameState ELSE call.result) >>]

onGameAction(socket, call) ==
    LET playerIndex == findIndexOfSocket(players, socket)
        newGameState == IF threw(call.result) THEN gameState ELSE call.result
    IN  IF playerIndex # gameState.currentPlayer
        THEN [gameState |-> gameState,
              emitted |-> << emit(socket, "error", "It's not your turn.") >>]
        ELSE [gameState |-> newGameState,
              emitted |-> (IF threw(call.result)
                           THEN << emit(socket, "action-error", call.result.exception) >>
                           ELSE <<>>)
                          \o << emit("all", "game-update", newGameState) >>]

(* Number of accepted actions explored in a game started by connections. *)
LobbySteps == 1

(* socket.on('game-action') *)
GameAction ==
    \E socket \in Range(players) :
        IF ~isGameState(gameState) \/ Len(players) < 2
        THEN /\ emitted' = <<>>              \* ignored
             /\ UNCHANGED <<gameState, last, clock, players, playerNumber>>
        ELSE /\ clock < LobbySteps
             /\ \E call \in gameActionCalls :
                    LET outcome == onGameAction(socket, call)
                    IN  /\ gameState' = outcome.gameState
                        /\ emitted' = outcome.emitted
                        /\ IF outcome.gameState # gameState
                           THEN /\ last' = [action |-> call.name,
                                            player |-> gameState.currentPlayer,
                                            args |-> call.args]
                                /\ clock' = clock + 1
                           ELSE UNCHANGED <<last, clock>>
                        /\ UNCHANGED <<players, playerNumber>>

InitLobby ==
    /\ gameState = noGame
    /\ last = [action |-> "init", player |-> null, args |-> <<>>]
    /\ clock = 0
    /\ players = <<>>
    /\ emitted = <<>>
    /\ playerNumber = [s \in Sockets |-> null]

NextLobby ==
    \/ Connection
    \/ Disconnect
    \/ GameAction

SpecLobby == InitLobby /\ [][NextLobby]_vars

(***************************************************************************)
(* validation.js: the validators the client's drop handlers consult.  A    *)
(* hand argument is optional: <<hand>>, or <<>> when the caller read it    *)
(* from an index playerHands does not have (undefined).                    *)
(***************************************************************************)
invalid(message) == [valid |-> FALSE, message |-> message]

isValid(validation) == ~threw(validation) /\ validation.valid

otherThan(playerCard, c) == c.rank # playerCard.rank \/ c.suit # playerCard.suit

validateTrail(tableCards, card, playerIndex, round) ==
    IF hasActiveBuild(tableCards, playerIndex)
    THEN invalid("Cannot trail while you own an active build.")
    ELSE [valid |-> TRUE]

validateAddToOpponentBuild(build, playerCard, playerHand, tableCards, playerIndex) ==
    LET newValue == build.value + rankValue(playerCard.rank)
    IN  IF build.owner = playerIndex
        THEN invalid("You cannot use this action on your own build.")
        ELSE IF hasActiveBuild(tableCards, playerIndex)
        THEN invalid("You have your own active build.")
        ELSE IF ~build.isExtendable \/ Len(build.cards) >= 5
        THEN invalid("This build cannot be extended.")
        ELSE IF newValue > 10
        THEN invalid("New value would be over 10.")
        ELSE IF playerHand = <<>> THEN TypeError
        ELSE IF ~Some(playerHand[1], LAMBDA c :
                    rankValue(c.rank) = newValue /\ otherThan(playerCard, c))
        THEN invalid("You must have the capture card in your hand.")
        ELSE [valid |-> TRUE, newValue |-> newValue]

validateAddToOwnBuild(build, playerCard, playerHand) ==
    IF playerHand = <<>> THEN TypeError
    ELSE LET remainingHand == Filter(playerHand[1], LAMBDA c : otherThan(playerCard, c))
         IN  IF rankValue(playerCard.rank) = build.value
             THEN IF ~Some(remainingHand, LAMBDA c : rankValue(c.rank) = build.value)
                  THEN invalid("You must have another card of the value in your hand.")
                  ELSE [valid |-> TRUE, newValue |-> build.value]
             ELSE invalid("You cannot extend your own build.")

validateTemporaryStackBuild(stack, handCard, playerHand, tableCards, currentPlayer) ==
    IF playerHand = <<>> THEN TypeError
    ELSE LET remainingHand == Filter(playerHand[1], LAMBDA c : otherThan(handCard, c))
             stackValue == calculateCardSum(stack.cards)
             handCardValue == rankValue(handCard.rank)
             newBuildValue == stackValue + handCardValue
         IN  IF stackValue = handCardValue
             THEN IF ~Some(remainingHand, LAMBDA c : rankValue(c.rank) = stackValue)
                  THEN invalid("You must have another card of the value in your hand.")
                  ELSE [valid |-> TRUE, newValue |-> stackValue]
             ELSE IF newBuildValue > 10
             THEN invalid("The total value would be over 10.")
             ELSE IF ~Some(remainingHand, LAMBDA c : rankValue(c.rank) = newBuildValue)
             THEN invalid("You must have the capture card in your hand.")
             ELSE [valid |-> TRUE, newValue |-> newBuildValue]

validateReinforceBuildWithStack(stack, targetBuild) ==
    IF Len(Filter(stack.cards, LAMBDA c : sourceOf(c) = "hand")) # 1
    THEN invalid("You must use exactly one card from your hand.")
    ELSE IF ~canPartitionIntoSums(Map(stack.cards, stripSource), targetBuild.value)
    THEN invalid("The cards cannot be grouped to match the build value.")
    ELSE [valid |-> TRUE]

(* validateMergeIntoOwnBuild without the grouping of the cards. *)
validateMergeIntoOwnBuild_anyCards(stack, targetBuild, currentPlayer) ==
    IF targetBuild.owner # currentPlayer
    THEN invalid("You can only merge table cards into your own build.")
    ELSE IF Some(stack.cards, LAMBDA c : sourceOf(c) = "hand")
    THEN invalid("This action is for merging table cards only.")
    ELSE [valid |-> TRUE]

validateMergeIntoOwnBuild(stack, targetBuild, currentPlayer) ==
    IF targetBuild.owner # currentPlayer
    THEN invalid("You can only merge table cards into your own build.")
    ELSE IF Some(stack.cards, LAMBDA c : sourceOf(c) = "hand")
    THEN invalid("This action is for merging table cards only.")
    ELSE IF ~canPartitionIntoSums(Map(stack.cards, stripSource), targetBuild.value)
    THEN invalid("The cards cannot be grouped to match the build value.")
    ELSE [valid |-> TRUE]

validateExtendToMerge(ownBuild, opponentBuild, handCard) ==
    IF ~opponentBuild.isExtendable
    THEN invalid("This build cannot be extended.")
    ELSE IF opponentBuild.value + rankValue(handCard.rank) # ownBuild.value
    THEN invalid("The combined value does not match your build.")
    ELSE [valid |-> TRUE]

validateReinforceOpponentBuildWithStack(stack, opponentBuild, index) ==
    IF opponentBuild.owner = index
    THEN invalid("This action is for reinforcing an opponent's build.")
    ELSE IF Some(stack.cards, LAMBDA c : sourceOf(c) = "hand")
    THEN invalid("You cannot use a hand card for this type of reinforcement.")
    ELSE IF ~opponentBuild.isExtendable
    THEN invalid("This build cannot be extended.")
    ELSE IF ~canPartitionIntoSums(Map(stack.cards, stripSource), opponentBuild.value)
    THEN invalid("The cards cannot be grouped to match the build value.")
    ELSE [valid |-> TRUE]

(***************************************************************************)
(* The local game (useGameActions): the state lives in the client, and     *)
(* every drop runs a handler on it.  showError and setModalInfo change no  *)
(* game state.                                                             *)
(***************************************************************************)
(* `${card.rank}-${card.suit}`, of any table item. *)
getCardId(item) == <<field(item, "rank"), field(item, "suit")>>

(* temp-${Date.now()}: a fresh id. *)
tempStackId == clock + 1

(* playerHands[index], undefined outside the array. *)
handAt(gs, index) == IF index \in Players THEN <<gs.playerHands[index]>> ELSE <<>>

createActionOption(type, payload) == [type |-> type, payload |-> payload]

executeAction(gs, action) ==
    LET payload == action.payload
        draggedItem == payload.draggedItem
    IN  CASE action.type = "end_game" ->
               endGame(IF Len(gs.tableCards) > 0 /\ gs.lastCapturer # null
                       THEN handleSweep(gs) ELSE gs)
          [] action.type = "capture" ->
               handleCapture(gs, draggedItem, <<payload.targetCard>>, <<>>)
          [] action.type = "build" ->
               handleBuild(gs, draggedItem, <<payload.targetCard>>, payload.buildValue,
                           payload.biggerCard, payload.smallerCard)
          [] action.type = "baseBuild" ->
               handleBaseBuild(gs, draggedItem, payload.baseCard, payload.otherCardsInBuild)
          [] action.type = "addToOpponentBuild" ->
               handleAddToOpponentBuild(gs, draggedItem, payload.buildToAddTo)
          [] action.type = "addToOwnBuild" ->
               handleAddToOwnBuild(gs, draggedItem, payload.buildToAddTo)
          [] action.type = "createBuildFromStack" ->
               handleCreateBuildFromStack(gs, draggedItem, payload.stackToBuildFrom)
          [] action.type = "extendToMerge" ->
               handleExtendToMerge(gs, draggedItem.card, payload.opponentBuild,
                                   payload.ownBuild)
          [] action.type = "reinforceOpponentBuild" ->
               handleReinforceOpponentBuildWithStack(gs, payload.stack, payload.targetBuild)
          [] action.type = "createBuildWithValue" ->
               handleCreateBuildWithValue(gs, payload.stack, payload.buildValue)
          [] OTHER -> gs

(* What a drop decides: the state it returns, and the actions it offers in *)
(* the modal when there are several.                                       *)
returns(gs) == [state |-> gs, modal |-> <<>>]

decide(gs, actions) ==
    IF Len(actions) = 1 THEN returns(executeAction(gs, actions[1]))
    ELSE [state |-> gs, modal |-> actions]

(* tableCards.map(...).filter(item => item !== null): `replaced` gives way *)
(* to newStack, the card of id `removedId` goes.                           *)
mapTable(tableCards, replaced(_), newStack, removedId) ==
    Map(Filter(tableCards, LAMBDA item : replaced(item) \/ getCardId(item) # removedId),
        LAMBDA item : IF replaced(item) THEN newStack ELSE item)

handleTableCardDrop(draggedItem, targetInfo, gs) ==
    LET currentPlayer == gs.currentPlayer
        tableCards == gs.tableCards
        playerCaptures == gs.playerCaptures
        draggedCard == draggedItem.card
        draggedSource == draggedItem.source
        fromCaptures == draggedSource \in {"opponentCapture", "captured"}
        opponentIndex == 1 - (currentPlayer - 1)
        opponentCaps == playerCaptures[opponentIndex]
        lastGroup == opponentCaps[Len(opponentCaps)]
        popped == SubSeq(lastGroup, 1, Len(lastGroup) - 1)
        newOpponentCaps == IF Len(popped) > 0
                           THEN [opponentCaps EXCEPT ![Len(opponentCaps)] = popped]
                           ELSE SubSeq(opponentCaps, 1, Len(opponentCaps) - 1)
        newPlayerCaptures == IF fromCaptures
                             THEN [playerCaptures EXCEPT ![opponentIndex] = newOpponentCaps]
                             ELSE playerCaptures
        cardRemoved ==
            IF draggedSource = "table"
            THEN Some(tableCards, LAMBDA c : getCardId(c) = getCardId(draggedCard))
            ELSE fromCaptures /\ Len(opponentCaps) > 0 /\ Len(lastGroup) > 0
        playerAlreadyHasTempStack == ownsTempStack(tableCards, currentPlayer - 1)
        annotatedDragged == withSource(draggedCard, draggedSource)
        targetIndex == FindIndex(tableCards, LAMBDA c :
                           isLoose(c) /\ getCardId(c) = targetInfo.cardId)
        targetCard == tableCards[targetIndex]
        stackIndex == FindIndex(tableCards, LAMBDA s :
                          typeOf(s) = "temporary_stack" /\ s.stackId = targetInfo.stackId)
        targetStack == tableCards[stackIndex]
    IN  IF ~has(draggedItem, "card") THEN gs
        ELSE IF fromCaptures /\ opponentIndex \notin Players
        THEN TypeError                       \* [...playerCaptures[2]]
        ELSE IF ~cardRemoved THEN gs
        ELSE IF typeOf(targetInfo) = "undefined" /\ draggedSource = "opponentCapture"
        THEN IF playerAlreadyHasTempStack THEN gs
             ELSE [gs EXCEPT
                     !.tableCards = Append(tableCards,
                         [stackId |-> tempStackId, type |-> "temporary_stack",
                          cards |-> <<annotatedDragged>>, owner |-> currentPlayer - 1]),
                     !.playerCaptures = newPlayerCaptures]
        ELSE IF typeOf(targetInfo) = "loose"
        THEN IF targetIndex = 0 THEN gs
             ELSE IF getCardId(draggedCard) = getCardId(targetCard) THEN gs
             ELSE IF playerAlreadyHasTempStack THEN gs
             ELSE [gs EXCEPT
                     !.tableCards = mapTable(tableCards,
                         LAMBDA item : getCardId(item) = getCardId(targetCard),
                         [stackId |-> tempStackId, type |-> "temporary_stack",
                          cards |-> <<withSource(targetCard, "table"), annotatedDragged>>,
                          owner |-> currentPlayer - 1],
                         getCardId(draggedCard)),
                     !.playerCaptures = newPlayerCaptures]
        ELSE IF typeOf(targetInfo) = "temporary_stack"
        THEN IF stackIndex = 0 THEN gs
             ELSE IF targetStack.owner # currentPlayer - 1 THEN gs
             ELSE [gs EXCEPT
                     !.tableCards = mapTable(tableCards,
                         LAMBDA item : hasStackId(item, targetStack.stackId),
                         [targetStack EXCEPT !.cards = Append(@, annotatedDragged)],
                         getCardId(draggedCard)),
                     !.playerCaptures = newPlayerCaptures]
        ELSE gs

(* The table's loose card a targetInfo names: by cardId, else by rank and *)
(* suit; 0 when there is none.                                             *)
findTargetCard(tableCards, targetInfo) ==
    LET byId == FindIndex(tableCards, LAMBDA c :
                    isLoose(c) /\ getCardId(c) = targetInfo.cardId)
    IN  IF byId # 0 THEN byId
        ELSE FindIndex(tableCards, LAMBDA c :
                 isLoose(c) /\ c.rank = targetInfo.rank /\ c.suit = targetInfo.suit)

findStack(tableCards, stackId) ==
    FindIndex(tableCards, LAMBDA s : typeOf(s) = "temporary_stack" /\ s.stackId = stackId)

findBuild(tableCards, buildId) ==
    FindIndex(tableCards, LAMBDA b : typeOf(b) = "build" /\ b.buildId = buildId)

(* handleHandCardDrop: a hand card dropped on a stack (B.1) or on a loose  *)
(* card (B.2).  A build target never gets here: handleDropOnCard decides   *)
(* it inline.                                                              *)
handleHandCardDrop(draggedItem, targetInfo, gs) ==
    LET currentPlayer == gs.currentPlayer
        tableCards == gs.tableCards
        draggedCard == draggedItem.card
        playerHand == handAt(gs, currentPlayer - 1)
        stackIndex == findStack(tableCards, targetInfo.stackId)
        stack == tableCards[stackIndex]
        sumOfStack == calculateCardSum(stack.cards)
        captureValue == rankValue(draggedCard.rank)
        buildValidation == validateTemporaryStackBuild(stack, draggedCard, playerHand,
                                                       tableCards, currentPlayer)
        actions ==
            (IF sumOfStack % captureValue = 0
                /\ canPartitionIntoSums(stack.cards, captureValue)
             THEN <<createActionOption("capture",
                        [draggedItem |-> draggedItem, targetCard |-> stack])>>
             ELSE <<>>)
            \o (IF buildValidation.valid
                THEN <<createActionOption("createBuildFromStack",
                           [draggedItem |-> draggedItem, stackToBuildFrom |-> stack])>>
                ELSE <<>>)
        targetIndex == findTargetCard(tableCards, targetInfo)
        targetCard == tableCards[targetIndex]
        stagingIndex == findStack(tableCards, draggedItem.stackId)
        stagingStack == tableCards[stagingIndex]
    IN  IF ~has(draggedItem, "card") THEN returns(gs)
        ELSE IF typeOf(targetInfo) = "temporary_stack"
        THEN IF stackIndex = 0 THEN returns(gs)
             ELSE IF stack.owner # currentPlayer - 1 THEN returns(gs)
             ELSE IF captureValue = sumOfStack
             THEN returns(handleCapture(gs, draggedItem, <<stack>>, <<>>))
             ELSE IF threw(buildValidation) THEN returns(TypeError)
             ELSE IF Len(actions) = 0
             THEN returns(handleAddToStagingStack(gs, draggedCard, stack))
             ELSE decide(gs, actions)
        ELSE IF typeOf(targetInfo) = "loose"
        THEN IF targetIndex = 0 THEN returns(gs)
             ELSE IF draggedItem.source = "temporary_stack"
             THEN IF stagingIndex = 0 THEN returns(gs)
                  ELSE returns([gs EXCEPT !.tableCards = mapTable(tableCards,
                          LAMBDA item : hasStackId(item, stagingStack.stackId),
                          [stackId |-> tempStackId, type |-> "temporary_stack",
                           cards |-> <<withSource(targetCard, "table")>>
                                     \o stagingStack.cards,
                           owner |-> currentPlayer - 1],
                          getCardId(targetCard))])
             ELSE IF ownsTempStack(tableCards, currentPlayer - 1) THEN returns(gs)
             ELSE returns(handleCreateStagingStack(gs, draggedCard, targetCard))
        ELSE returns(gs)

handleTemporaryStackDrop(draggedItem, targetInfo, gs) ==
    LET currentPlayer == gs.currentPlayer
        tableCards == gs.tableCards
        buildIndex == findBuild(tableCards, targetInfo.buildId)
        buildToDropOn == tableCards[buildIndex]
        draggedIndex == findStack(tableCards, draggedItem.stackId)
        stagingStack == tableCards[draggedIndex]
        stackIndex == findStack(tableCards, targetInfo.stackId)
        targetStack == tableCards[stackIndex]
        targetIndex == FindIndex(tableCards, LAMBDA c :
                           isLoose(c) /\ getCardId(c) = targetInfo.cardId)
        targetCard == tableCards[targetIndex]
        newStack(cards) == [stackId |-> tempStackId, type |-> "temporary_stack",
                            cards |-> cards, owner |-> currentPlayer]
    IN  IF typeOf(targetInfo) = "build"
        THEN IF buildIndex = 0 THEN gs
             ELSE IF draggedIndex = 0 THEN gs
             ELSE IF Some(stagingStack.cards, LAMBDA c : sourceOf(c) = "hand")
             THEN IF ~validateReinforceBuildWithStack(stagingStack, buildToDropOn).valid
                  THEN handleDisbandStagingStack(gs, stagingStack)
                  ELSE handleReinforceBuildWithStack(gs, stagingStack, buildToDropOn)
             ELSE IF buildToDropOn.owner = currentPlayer
             THEN IF ~validateMergeIntoOwnBuild(stagingStack, buildToDropOn,
                                                currentPlayer).valid
                  THEN gs
                  ELSE handleMergeIntoOwnBuild(gs, stagingStack, buildToDropOn)
             ELSE gs
        ELSE IF typeOf(targetInfo) = "temporary_stack"
        THEN IF draggedIndex = 0 \/ stackIndex = 0 THEN gs
             ELSE IF targetStack.owner # currentPlayer THEN gs
             ELSE [gs EXCEPT !.tableCards =
                     Append(Filter(tableCards, LAMBDA c :
                                ~hasStackId(c, targetStack.stackId)
                                /\ ~hasStackId(c, stagingStack.stackId)),
                            newStack(targetStack.cards \o stagingStack.cards))]
        ELSE IF typeOf(targetInfo) = "loose"
        THEN IF draggedIndex = 0 THEN gs
             ELSE IF targetIndex = 0 THEN gs
             ELSE [gs EXCEPT !.tableCards =
                     Append(Filter(tableCards, LAMBDA c :
                                ~hasStackId(c, stagingStack.stackId)
                                /\ getCardId(c) # getCardId(targetCard)),
                            newStack(<<withSource(targetCard, "table")>>
                                     \o stagingStack.cards))]
        ELSE gs

(* handleDropOnCard's inline decision for a hand card dropped on a build. *)
handleBuildDrop(draggedItem, targetInfo, gs) ==
    LET currentPlayer == gs.currentPlayer
        tableCards == gs.tableCards
        draggedCard == draggedItem.card
        buildIndex == findBuild(tableCards, targetInfo.buildId)
        buildToDropOn == tableCards[buildIndex]
        playerHand == handAt(gs, currentPlayer - 1)
        ownIndex == FindIndex(tableCards, LAMBDA c :
                        typeOf(c) = "build" /\ c.owner = currentPlayer - 1)
        playerOwnsBuild == tableCards[ownIndex]
        opponents == buildToDropOn.owner # currentPlayer - 1
        extension ==
            IF ~opponents THEN [valid |-> FALSE]
            ELSE IF ownIndex # 0
            THEN validateExtendToMerge(playerOwnsBuild, buildToDropOn, draggedCard)
            ELSE validateAddToOpponentBuild(buildToDropOn, draggedCard, playerHand,
                                            tableCards, currentPlayer - 1)
        addition ==
            IF opponents THEN [valid |-> FALSE]
            ELSE validateAddToOwnBuild(buildToDropOn, draggedCard, playerHand)
        actions ==
            (IF rankValue(draggedCard.rank) = buildToDropOn.value
             THEN <<createActionOption("capture",
                        [draggedItem |-> draggedItem, targetCard |-> buildToDropOn])>>
             ELSE <<>>)
            \o (IF ~extension.valid THEN <<>>
                ELSE IF ownIndex # 0
                THEN <<createActionOption("extendToMerge",
                           [draggedItem |-> draggedItem, opponentBuild |-> buildToDropOn,
                            ownBuild |-> playerOwnsBuild])>>
                ELSE <<createActionOption("addToOpponentBuild",
                           [draggedItem |-> draggedItem,
                            buildToAddTo |-> buildToDropOn])>>)
            \o (IF ~addition.valid THEN <<>>
                ELSE <<createActionOption("addToOwnBuild",
                           [draggedItem |-> draggedItem,
                            buildToAddTo |-> buildToDropOn])>>)
    IN  IF buildIndex = 0 THEN returns(gs)
        ELSE IF threw(extension) \/ threw(addition) THEN returns(TypeError)
        ELSE IF Len(actions) = 0 THEN returns(gs)
        ELSE decide(gs, actions)

(* handleDropOnCard: the drop of a dragged item on a table target, routed  *)
(* by the item's source.                                                   *)
handleDropOnCard(draggedItem, targetInfo, gs) ==
    LET isEmptyAreaDrop == typeOf(targetInfo) = "undefined"
        draggedSource == draggedItem.source
    IN  IF isEmptyAreaDrop /\ draggedSource # "opponentCapture" THEN returns(gs)
        ELSE IF ~has(draggedItem, "card") /\ ~has(draggedItem, "stack")
                /\ draggedSource # "temporary_stack"
        THEN returns(gs)
        ELSE IF draggedSource \in {"table", "opponentCapture", "captured"}
        THEN returns(handleTableCardDrop(draggedItem, targetInfo, gs))
        ELSE IF draggedSource = "hand"
        THEN IF typeOf(targetInfo) = "build"
             THEN handleBuildDrop(draggedItem, targetInfo, gs)
             ELSE handleHandCardDrop(draggedItem, targetInfo, gs)
        ELSE IF draggedSource = "temporary_stack"
        THEN returns(handleTemporaryStackDrop(draggedItem, targetInfo, gs))
        ELSE returns(gs)

(* determineActions (the multiplayer board's drop logic): the guards, then *)
(* the drop handler of the item's source, run with mocks that record what  *)
(* the handler decides.  `state` is <<gameState>>, or <<>> when the board   *)
(* has no game state.  A hand card on a build takes the third branch of    *)
(* handleHandCardDrop, which is the inline build drop.                     *)
determineActions(draggedItem, targetInfo, state) ==
    LET refused(errorMessage) ==
            [handler |-> "none", decision |-> <<>>, errorMessage |-> errorMessage]
        routed(handler, decision) ==
            [handler |-> handler, decision |-> <<decision>>, errorMessage |-> "undefined"]
        source == field(draggedItem, "source")
    IN  IF source = "undefined"
        THEN refused("Invalid dragged item: missing source information")
        ELSE IF state = <<>> \/ state[1].currentPlayer = 0   \* !gameState.currentPlayer
        THEN refused("Invalid game state")
        ELSE IF source = "hand"
        THEN routed("handleHandCardDrop",
                    IF typeOf(targetInfo) = "build"
                    THEN handleBuildDrop(draggedItem, targetInfo, state[1])
                    ELSE handleHandCardDrop(draggedItem, targetInfo, state[1]))
        ELSE IF source \in {"table", "opponentCapture", "captured"}
        THEN routed("handleTableCardDrop",
                    returns(handleTableCardDrop(draggedItem, targetInfo, state[1])))
        ELSE IF source = "temporary_stack"
        THEN routed("handleTemporaryStackDrop",
                    returns(handleTemporaryStackDrop(draggedItem, targetInfo, state[1])))
        ELSE refused("Drag source not supported in multiplayer.")

(* handleTrailCard trailing directly in either round. *)
handleTrailCard_trailsDirectly(card, player, gs) ==
    IF ~validateTrail(gs.tableCards, card, player - 1, gs.round).valid THEN gs
    ELSE handleTrail(gs, card)

handleTrailCard(card, player, gs) ==
    IF gs.round = 2
    THEN IF ownsTempStack(gs.tableCards, gs.currentPlayer - 1) THEN gs
         ELSE handleStageSingleCardFromHand(gs, card)
    ELSE IF ~validateTrail(gs.tableCards, card, player - 1, gs.round).valid THEN gs
    ELSE handleTrail(gs, card)

handleStageOpponentCardAction(item, gs) ==
    IF ownsTempStack(gs.tableCards, gs.currentPlayer - 1) THEN gs
    ELSE handleStageOpponentCard(gs, item.card)

handleCancelStagingStackAction(stack, gs) == handleCancelStagingStack(gs, stack)

(* handleConfirmStagingStackAction in a local game.  sortingIsValid is the *)
(* verdict of validateComboSorting on the stack's cards.                   *)
handleConfirmStagingStackAction(stack, gs, sortingIsValid) ==
    LET currentPlayer == gs.currentPlayer
        tableCards == gs.tableCards
        playerHand == handAt(gs, currentPlayer - 1)
        handCardsInStack == Filter(stack.cards, LAMBDA c : sourceOf(c) = "hand")
        handCard == handCardsInStack[1]
        tableCardsInStack == Filter(stack.cards, LAMBDA c : sourceOf(c) # "hand")
        sumOfTableCards == calculateCardSum(tableCardsInStack)
        captureValue == rankValue(handCard.rank)
        draggedItem == [card |-> handCard, source |-> "hand", player |-> currentPlayer]
        buildsThrow == /\ ~hasActiveBuild(tableCards, currentPlayer - 1)
                       /\ playerHand = <<>>          \* undefined.filter
        possibleBuilds == findPossibleBuildsFromStack(stack, playerHand[1], tableCards,
                                                      currentPlayer - 1)
        opponentBuilds == Filter(tableCards, LAMBDA b :
                              typeOf(b) = "build" /\ b.owner # currentPlayer - 1)
        actions ==
            (IF /\ Len(tableCardsInStack) > 0
                /\ sumOfTableCards % captureValue = 0
                /\ \/ sumOfTableCards = captureValue
                   \/ canPartitionIntoSums(tableCardsInStack, captureValue)
             THEN <<createActionOption("capture",
                        [draggedItem |-> draggedItem, targetCard |-> stack])>>
             ELSE <<>>)
            \o Map(possibleBuilds, LAMBDA value :
                   createActionOption("createBuildWithValue",
                       [stack |-> stack, buildValue |-> value,
                        draggedItem |-> draggedItem]))
            \o Map(Filter(opponentBuilds, LAMBDA build :
                       validateReinforceOpponentBuildWithStack(stack, build,
                                                               currentPlayer - 1).valid),
                   LAMBDA build :
                       createActionOption("reinforceOpponentBuild",
                           [stack |-> stack, targetBuild |-> build,
                            draggedItem |-> draggedItem]))
    IN  IF Len(stack.cards) = 1 /\ sourceOf(stack.cards[1]) = "hand"
        THEN returns(handleFinalizeTrail(gs, stack))
        ELSE IF Len(handCardsInStack) # 1
        THEN returns(handleDisbandStagingStack(gs, stack))
        ELSE IF ~sortingIsValid THEN returns(gs)
        ELSE IF buildsThrow THEN returns(TypeError)
        ELSE IF Len(actions) = 0 THEN returns(handleDisbandStagingStack(gs, stack))
        ELSE decide(gs, actions)

(***************************************************************************)
(* What the board lets the player drag and where it can be dropped.        *)
(***************************************************************************)
(* PlayerHandsSection: the hand on screen. *)
playerIndex == IF gameState.currentPlayer >= 1
               THEN gameState.currentPlayer - 1 ELSE gameState.currentPlayer

(* DraggableCard: { card, source, player: currentPlayer, stackId }. *)
DraggedItems ==
    LET player == gameState.currentPlayer
    IN  {[card |-> c, source |-> "hand", player |-> player] :
            c \in Range(gameState.playerHands[playerIndex])}
        \cup {[card |-> c, source |-> "table", player |-> player] : c \in LooseOnTable}
        \cup {[card |-> c, source |-> "opponentCapture", player |-> player] :
                c \in topOfPile(gameState.playerCaptures[1 - gameState.currentPlayer])}
        \cup {[stackId |-> s.stackId, source |-> "temporary_stack", player |-> player] :
                s \in StacksOnTable}

EmptyArea == [area |-> "table"]

Targets ==
    {[type |-> "loose", cardId |-> getCardId(c), rank |-> c.rank, suit |-> c.suit] :
        c \in LooseOnTable}
    \cup {[type |-> "temporary_stack", stackId |-> s.stackId] : s \in StacksOnTable}
    \cup {[type |-> "build", buildId |-> b.buildId] : b \in BuildsOnTable}
    \cup {EmptyArea}

(* A stack is not dropped on itself. *)
canDropOn(draggedItem, targetInfo) ==
    ~(has(draggedItem, "stackId") /\ has(targetInfo, "stackId")
      /\ draggedItem.stackId = targetInfo.stackId)

DropOnCard ==
    /\ Ready
    /\ \E draggedItem \in DraggedItems, targetInfo \in Targets :
        /\ canDropOn(draggedItem, targetInfo)
        /\ Apply("handleDropOnCard", [draggedItem |-> draggedItem, targetInfo |-> targetInfo],
                 handleDropOnCard(draggedItem, targetInfo, gameState).state)

(* handleModalAction: the player picks one of the actions a drop offered. *)
ConfirmStagingStackAction ==
    /\ Ready
    /\ \E stack \in StacksOnTable, sortingIsValid \in BOOLEAN :
        Apply("handleConfirmStagingStackAction", [stack |-> stack],
              handleConfirmStagingStackAction(stack, gameState, sortingIsValid).state)

(* The modals a drop or a confirmation can open in the current state. *)
OfferedModals ==
    {handleDropOnCard(x[1], x[2], gameState).modal :
        x \in {y \in DraggedItems \X Targets : canDropOn(y[1], y[2])}}
    \cup {handleConfirmStagingStackAction(stack, gameState, TRUE).modal :
            stack \in StacksOnTable}

ModalAction ==
    /\ Ready
    /\ \E offered \in OfferedModals :
        \E i \in 1..Len(offered) :
            Apply("handleModalAction", [action |-> offered[i]],
                  executeAction(gameState, offered[i]))

TrailCard ==
    /\ Ready
    /\ \E draggedItem \in DraggedItems :
        /\ draggedItem.source = "hand"
        /\ Apply("handleTrailCard", [card |-> draggedItem.card],
                 handleTrailCard(draggedItem.card, draggedItem.player, gameState))

StageOpponentCardAction ==
    /\ Ready
    /\ \E card \in topOfPile(gameState.playerCaptures[1 - gameState.currentPlayer]) :
        Apply("handleStageOpponentCardAction", [card |-> card],
              handleStageOpponentCardAction([card |-> card], gameState))

CancelStagingStackAction ==
    /\ Ready
    /\ \E stack \in StacksOnTable :
        Apply("handleCancelStagingStackAction", [stack |-> stack],
              handleCancelStagingStackAction(stack, gameState))

(* Another deal, after player 0 trailed the 3H: player 1 to move. *)
AfterTrail ==
    [BaseState EXCEPT
        !.currentPlayer = 1,
        !.playerHands[0] = << C("2", "S"), C("6", "C") >>,
        !.tableCards = << C("2", "H"), C("2", "D"), C("5", "D"), C("3", "H") >>,
        !.deck = [i \in 1..Len(Round2Deck) |->
                    IF Round2Deck[i] = C("2", "D") THEN C("3", "D")
                    ELSE IF Round2Deck[i] = C("6", "C") THEN C("5", "H")
                    ELSE Round2Deck[i]]]

(* Round 2 under way: the deck is dealt, three cards are left in each hand. *)
MidRound2 ==
    [BaseState EXCEPT
        !.round = 2,
        !.deck = <<>>,
        !.playerCaptures[0] = @ \o << SubSeq(Round2Deck, 1, 10) >>,
        !.playerCaptures[1] = @ \o << SubSeq(Round2Deck, 11, 20) >>]

(* A deal in which player 0 held 3D, 5H and 5S and trailed the 3D, the 2S  *)
(* being still in the deck: player 1 to move.                              *)
AfterTrailWithPair ==
    [BaseState EXCEPT
        !.currentPlayer = 1,
        !.playerHands[0] = << C("5", "H"), C("5", "S") >>,
        !.tableCards = << C("2", "H"), C("3", "H"), C("5", "D"), C("3", "D") >>,
        !.deck = [i \in 1..Len(Round2Deck) |->
                    IF Round2Deck[i] = C("5", "S") THEN C("2", "S") ELSE Round2Deck[i]]]

(* After player 0's build player 1 trailed 5C: player 0 to move, owning a   *)
(* build of 5, two loose fives on the table.                               *)
AfterBuildAndTrailOf5 ==
    [AfterBuild EXCEPT
        !.currentPlayer = 0,
        !.playerHands[1] = << C("3", "C"), C("8", "D") >>,
        !.tableCards = << C("3", "H"), C("5", "D"), BuildOf5, C("5", "C") >>]

LocalPositions ==
    {BaseState, AfterTrail, AfterBuild, AfterBuildAndTrail, AfterTwoBuilds, MidRound2,
     AfterTrailWithPair, AfterBuildAndTrailOf5}

InitLocal ==
    /\ gameState \in LocalPositions
    /\ last = [action |-> "init", player |-> gameState.currentPlayer, args |-> <<>>]
    /\ clock = 0
    /\ TwoConnected

NextLocal ==
    \/ DropOnCard
    \/ ModalAction
    \/ TrailCard
    \/ StageOpponentCardAction
    \/ CancelStagingStackAction
    \/ ConfirmStagingStackAction

SpecLocal == InitLocal /\ [][NextLocal]_vars

(***************************************************************************)
(* Properties                                                              *)
(***************************************************************************)
Ranks == {"A", "2", "3", "4", "5", "6", "7", "8", "9", "10"}

Suits == {"S", "H", "D", "C"}

(* Every card of a position, zone by zone: hands, table (loose cards and   *)
(* the members of builds and stacks), capture groups, deck.                *)
cardsIn(gs) ==
    gs.playerHands[0] \o gs.playerHands[1]
    \o Flat(Map(gs.tableCards, cardsOf))
    \o Flat(Map(Flat(gs.playerCaptures[0]) \o Flat(gs.playerCaptures[1]), cardsOf))
    \o gs.deck

copies(gs, rank, suit) ==
    count(cardsIn(gs), LAMBDA c : c.rank = rank /\ c.suit = suit)

sameCards(gs1, gs2) ==
    \A rank \in Ranks, suit \in Suits : copies(gs1, rank, suit) = copies(gs2, rank, suit)

(* C1: every transition of the engine keeps the multiset of cards over     *)
(* hands, table, captures and deck: no card is duplicated or lost.         *)
C1_CardConservation == [][sameCards(gameState, gameState')]_vars

TurnEndingActions ==
    {"handleTrail", "handleFinalizeTrail", "handleCapture", "handleBuild",
     "handleFinalizeStagingStack", "handleCreateBuildWithValue",
     "handleCreateBuildFromStack"}

(* C2: after an accepted trail, capture or finalized build creation the    *)
(* current player is the other player.                                     *)
C2_TurnEndingFlipsTurn ==
    last.action \in TurnEndingActions => gameState.currentPlayer = 1 - last.player

(* A staging stack was finalized into the one build it allows, and the     *)
(* turn passed.                                                            *)
C2_Witness ==
    /\ last.action = "handleFinalizeStagingStack"
    /\ gameState.currentPlayer = 1 - last.player

StagingActions ==
    {"handleCreateStagingStack", "handleAddToStagingStack", "handleMergeIntoOwnBuild",
     "handleStageOpponentCard", "handleStageSingleCardFromHand",
     "handleCancelStagingStack"}

(* C3: a staging action changes neither the current player nor the round,  *)
(* the deck, gameOver or lastCapturer.                                     *)
C3_StagingKeepsTurn ==
    [][(gameState' # gameState /\ last'.action \in StagingActions) =>
          /\ gameState'.currentPlayer = gameState.currentPlayer
          /\ gameState'.round = gameState.round
          /\ gameState'.deck = gameState.deck
          /\ gameState'.gameOver = gameState.gameOver
          /\ gameState'.lastCapturer = gameState.lastCapturer]_vars

(* A stack was merged into a build and the same player is still to move. *)
C3_Witness ==
    /\ last.action = "handleMergeIntoOwnBuild"
    /\ gameState.currentPlayer = last.player

buildsOwnedBy(gs, p) ==
    Filter(gs.tableCards, LAMBDA item : typeOf(item) = "build" /\ item.owner = p)

(* C4: no state of the server-driven game has two builds on the table      *)
(* with the same owner.                                                    *)
C4_SingleActiveBuild ==
    \A p \in Players : Len(buildsOwnedBy(gameState, p)) <= 1

(* The build an action has just put on the table: the last table item. *)
builtItem(gs) == gs.tableCards[Len(gs.tableCards)]

BuildPathActions ==
    {"handleBuild", "handleBaseBuild", "handleCreateBuildFromStack",
     "handleCreateBuildWithValue", "handleAddToOpponentBuild"}

(* C5: after an accepted action that created or extended a build to value  *)
(* V, the acting player's hand (the played card gone) holds a card of      *)
(* rank value V.                                                           *)
C5_Capturability ==
    (\/ last.action \in BuildPathActions
     \/ /\ last.action = "handleAddToOwnBuild"
        /\ rankValue(last.args.card.rank) = last.args.build.value)
    => Some(gameState.playerHands[last.player],
            LAMBDA c : rankValue(c.rank) = builtItem(gameState).value)

captureIsValid(card, selected) ==
    LET cards == Flat(Map(selected, cardsOf))
        v == rankValue(card.rank)
    IN  v = calculateCardSum(cards) \/ canPartitionIntoSums(cards, v)

(* C6: a capture that changes the capture sets was made with a card whose  *)
(* value is the sum of the selected cards, or into which they partition.   *)
C6_CaptureValidity ==
    [][(/\ gameState' # gameState
        /\ last'.action = "handleCapture"
        /\ gameState'.playerCaptures # gameState.playerCaptures)
       => captureIsValid(last'.args.card, last'.args.selected)]_vars

isSimpleCapture(gs, args) ==
    /\ Len(args.selected) = 1
    /\ isLoose(args.selected[1])
    /\ Some(gs.tableCards, LAMBDA t : t = args.selected[1])
    /\ Some(gs.playerHands[gs.currentPlayer], LAMBDA c : c = args.card)
    /\ rankValue(args.card.rank) = rankValue(args.selected[1].rank)
    /\ buildsOwnedBy(gs, gs.currentPlayer) = <<>>

(* C7: capturing a loose card c with a hand card h of the same value, by   *)
(* a player who owns no build, takes h from the hand and c from the table, *)
(* appends the one group of h and c to the player's captures and passes    *)
(* the turn.                                                               *)
C7_SimpleCapture ==
    [][(/\ gameState' # gameState
        /\ last'.action = "handleCapture"
        /\ isSimpleCapture(gameState, last'.args))
       => LET p == gameState.currentPlayer
              h == last'.args.card
              c == last'.args.selected[1]
              groups == gameState'.playerCaptures[p]
          IN  /\ Len(gameState'.playerHands[p]) = Len(gameState.playerHands[p]) - 1
              /\ ~Some(gameState'.playerHands[p], LAMBDA x : x = h)
              /\ gameState'.playerHands[1 - p] = gameState.playerHands[1 - p]
              /\ gameState'.tableCards = Filter(gameState.tableCards, LAMBDA t : t # c)
              /\ Len(groups) = Len(gameState.playerCaptures[p]) + 1
              /\ SubSeq(groups, 1, Len(groups) - 1) = gameState.playerCaptures[p]
              /\ Len(groups[Len(groups)]) = 2
              /\ Range(groups[Len(groups)]) = {h, c}
              /\ gameState'.playerCaptures[1 - p] = gameState.playerCaptures[1 - p]
              /\ gameState'.currentPlayer = 1 - p]_vars

(* Player 0 captured the loose 2H with the 2S. *)
C7_Witness ==
    /\ last.action = "handleCapture"
    /\ last.args.card = C("2", "S")
    /\ last.args.selected = << C("2", "H") >>
    /\ buildsOwnedBy(gameState, last.player) = <<>>
    /\ Len(gameState.playerCaptures[last.player]) > 0
    /\ Range(gameState.playerCaptures[last.player]
                [Len(gameState.playerCaptures[last.player])])
         = {C("2", "S"), C("2", "H")}
    /\ gameState.currentPlayer = 1 - last.player

onTable(gs, item) == Some(gs.tableCards, LAMBDA t : sameItem(t, item))

inHand(gs, card) == Some(gs.playerHands[gs.currentPlayer], LAMBDA c : sameCard(c, card))

(* Does the payload name a card the player does not hold, or a table       *)
(* entity that is not on the table?                                        *)
structuralError(gs, args) ==
    \/ has(args, "card") /\ ~inHand(gs, args.card)
    \/ has(args, "target") /\ ~onTable(gs, args.target)
    \/ has(args, "targets") /\ Some(args.targets, LAMBDA t : ~onTable(gs, t))
    \/ has(args, "selected") /\ Some(args.selected, LAMBDA t : ~onTable(gs, t))
    \/ has(args, "baseCard") /\ ~onTable(gs, args.baseCard)
    \/ has(args, "others") /\ Some(Flat(args.others), LAMBDA t : ~onTable(gs, t))
    \/ has(args, "stack") /\ ~onTable(gs, args.stack)
    \/ has(args, "build") /\ ~onTable(gs, args.build)
    \/ has(args, "opponentBuild") /\ ~onTable(gs, args.opponentBuild)
    \/ has(args, "ownBuild") /\ ~onTable(gs, args.ownBuild)

(* C8: an action whose payload names a card that is not in the acting      *)
(* player's hand, or an entity that is not on the table, changes nothing.  *)
C8_StructuralErrorsRejected ==
    [][gameState' # gameState => ~structuralError(gameState, last'.args)]_vars

(* C10: adding a card or a stack of a build's value to that build leaves   *)
(* the value as it was and makes the build non-extendable.                 *)
C10_ReinforcementImmutability ==
    [][gameState' # gameState =>
        LET a == last'.action
            args == last'.args
            b == builtItem(gameState')
            own == buildsOwnedBy(gameState, gameState.currentPlayer)
        IN  /\ (a = "handleAddToOwnBuild"
                  /\ rankValue(args.card.rank) = args.build.value)
               => (b.value = args.build.value /\ b.isExtendable = FALSE)
            /\ a \in {"handleReinforceBuildWithStack",
                      "handleReinforceOpponentBuildWithStack"}
               => (b.value = args.build.value /\ b.isExtendable = FALSE)
            /\ (a = "handleCapture"
                  /\ gameState'.playerCaptures = gameState.playerCaptures)
               => (b.value = own[1].value /\ b.isExtendable = FALSE)
            /\ (a = "handleCreateBuildFromStack"
                  /\ calculateCardSum(args.stack.cards) = rankValue(args.card.rank))
               => (b.value = calculateCardSum(args.stack.cards)
                   /\ b.isExtendable = FALSE)]_vars

(* An opponent's build of an unchanged value was reinforced with a stack   *)
(* and is no longer extendable.                                            *)
C10_Witness ==
    /\ last.action = "handleReinforceOpponentBuildWithStack"
    /\ onTable(gameState, last.args.build)
    /\ builtItem(gameState).value = last.args.build.value
    /\ builtItem(gameState).isExtendable = FALSE
    /\ last.args.build.isExtendable = TRUE

stacksOwnedBy(gs, p) ==
    count(gs.tableCards, LAMBDA s : typeOf(s) = "temporary_stack" /\ s.owner = p)

(* Did the accepted action l set out to create a temporary stack: a hand,  *)
(* table or opponent's card dropped on a loose card or on the empty area, *)
(* an opponent's card staged, or a round-2 trail?                          *)
createsStack(l, round) ==
    \/ l.action \in {"handleStageOpponentCardAction", "handleStageOpponentCard",
                     "handleCreateStagingStack", "handleStageSingleCardFromHand"}
    \/ l.action = "handleTrailCard" /\ round = 2
    \/ /\ l.action = "handleDropOnCard"
       /\ l.args.draggedItem.source \in {"hand", "table", "opponentCapture"}
       /\ typeOf(l.args.targetInfo) \in {"loose", "undefined"}

(* C9: no player owns two temporary stacks, and an action that would       *)
(* create a stack changes nothing when the acting player already owns one. *)
C9_OneTempStackPerPlayer ==
    /\ [](\A p \in Players : stacksOwnedBy(gameState, p) <= 1)
    /\ [][createsStack(last', gameState.round) /\ gameState' # gameState
            => ~ownsTempStack(gameState.tableCards, gameState.currentPlayer)]_vars

(* C11: an accepted addToOwnBuild was made with a card of the build's      *)
(* value, and no action of a build's owner leaves that build on the table  *)
(* with a larger value.                                                    *)
C11_OwnerNeverGrows ==
    [][gameState' # gameState =>
        /\ last'.action = "handleAddToOwnBuild"
             => rankValue(last'.args.card.rank) = last'.args.build.value
        /\ \A b \in Range(buildsOwnedBy(gameState, gameState.currentPlayer)) :
             \A n \in Range(gameState'.tableCards) :
                (typeOf(n) = "build" /\ n.buildId = b.buildId) => n.value <= b.value]_vars

(* C12: an accepted extension of a build found it extendable, with fewer   *)
(* than 5 cards, and gave it a value of at most 10; every build on the     *)
(* table has a value from 1 to 10; a non-extendable build that stays on    *)
(* the table keeps its value.                                              *)
C12_ExtensionLimits ==
    /\ [](\A b \in BuildsOnTable : b.value \in 1..10)
    /\ [][gameState' # gameState =>
            /\ last'.action = "handleAddToOpponentBuild"
                 => /\ last'.args.build.isExtendable
                    /\ Len(last'.args.build.cards) < 5
                    /\ last'.args.build.value + rankValue(last'.args.card.rank) <= 10
            /\ \A b \in BuildsOnTable : \A n \in Range(gameState'.tableCards) :
                 (~b.isExtendable /\ typeOf(n) = "build" /\ n.buildId = b.buildId)
                    => n.value = b.value]_vars

OwnershipActions ==
    {"handleAddToOpponentBuild", "handleReinforceBuildWithStack",
     "handleReinforceOpponentBuildWithStack"}

(* C13: the build an accepted extension or reinforcement leaves on the     *)
(* table is owned by the player who made it.                               *)
C13_OwnershipTransfer ==
    [][(gameState' # gameState /\ last'.action \in OwnershipActions)
        => builtItem(gameState').owner = gameState.currentPlayer]_vars

BuildCreatingActions ==
    {"handleBuild", "handleBaseBuild", "handleCreateBuildFromStack",
     "handleCreateBuildWithValue", "handleFinalizeStagingStack"}

(* C14: no two builds on the table have different owners and the same      *)
(* value, and an accepted build creation made a build of a value that no   *)
(* build of the opponent had.                                              *)
C14_NoDuplicateBuildValue ==
    /\ [](\A a \in BuildsOnTable, b \in BuildsOnTable :
            a.owner # b.owner => a.value # b.value)
    /\ [][(gameState' # gameState /\ last'.action \in BuildCreatingActions)
            => \A b \in BuildsOnTable :
                 b.owner # gameState.currentPlayer
                    => b.value # builtItem(gameState').value]_vars

(* C15: the cards of every build on the table can be split into groups     *)
(* that each sum to the build's value.                                     *)
C15_BuildJustification ==
    \A b \in BuildsOnTable : canPartitionIntoSums(b.cards, b.value)

(* C16: in round 1 an accepted trail was made by a player who owned no     *)
(* build.                                                                  *)
C16_TrailRestriction ==
    [][(/\ gameState' # gameState
        /\ last'.action \in {"handleTrail", "handleTrailCard"}
        /\ gameState.round = 1)
       => buildsOwnedBy(gameState, gameState.currentPlayer) = <<>>]_vars

looseCards(gs) == Filter(gs.tableCards, isLoose)

(* Is the item a stack of the one card c, taken from the hand, owned by p? *)
isTrailStack(item, c, p) ==
    /\ typeOf(item) = "temporary_stack"
    /\ item.owner = p
    /\ item.cards = <<withSource(c, "hand")>>

(* C17: in round 2 an accepted trail leaves the loose cards and the turn   *)
(* as they were and puts on the table a one-card stack of the acting       *)
(* player; the confirmation of such a stack replaces it by the loose card  *)
(* and passes the turn; no other action makes a hand card a loose card.    *)
C17_Round2TrailStaging ==
    [][(gameState' # gameState /\ gameState.round = 2) =>
        LET p == gameState.currentPlayer
            a == last'.action
        IN  /\ a = "handleTrailCard"
                 => /\ looseCards(gameState') = looseCards(gameState)
                    /\ gameState'.currentPlayer = p
                    /\ isTrailStack(builtItem(gameState'), last'.args.card, p)
                    /\ ~inHand(gameState', last'.args.card)
            /\ (a = "handleConfirmStagingStackAction"
                  /\ Len(last'.args.stack.cards) = 1
                  /\ sourceOf(last'.args.stack.cards[1]) = "hand")
                 => /\ gameState'.tableCards =
                          Append(Filter(gameState.tableCards,
                                        LAMBDA s : s # last'.args.stack),
                                 stripSource(last'.args.stack.cards[1]))
                    /\ gameState'.currentPlayer = 1 - p
            /\ (\E c \in Range(looseCards(gameState')) :
                    /\ ~Some(looseCards(gameState), LAMBDA t : sameCard(t, c))
                    /\ \/ Some(gameState.playerHands[0] \o gameState.playerHands[1],
                               LAMBDA h : sameCard(h, c))
                       \/ Some(Flat(Map(gameState.tableCards, cardsOf)),
                               LAMBDA h : sameCard(h, c) /\ sourceOf(h) = "hand"))
                 => a = "handleConfirmStagingStackAction"]_vars

(* In round 2 a trailed card was staged, confirmed, and lies loose on the  *)
(* table with the turn passed.                                             *)
C17_Witness ==
    /\ gameState.round = 2
    /\ last.action = "handleConfirmStagingStackAction"
    /\ Len(last.args.stack.cards) = 1
    /\ sourceOf(last.args.stack.cards[1]) = "hand"
    /\ isLoose(builtItem(gameState))
    /\ sameCard(builtItem(gameState), last.args.stack.cards[1])
    /\ gameState.currentPlayer = 1 - last.player

(* The cards of a stack tagged with one of the sources, tags removed. *)
taggedCards(stack, sources) ==
    Map(Filter(stack.cards, LAMBDA c : sourceOf(c) \in sources), stripSource)

sameBag(s1, s2) ==
    \A x \in Range(s1) \cup Range(s2) :
        count(s1, LAMBDA y : y = x) = count(s2, LAMBDA y : y = x)

(* Do two positions hold the same cards in each hand, loose on the table   *)
(* and in each capture set, with the same player to move?                  *)
sameZones(gs1, gs2) ==
    /\ \A p \in Players :
          /\ sameBag(gs1.playerHands[p], gs2.playerHands[p])
          /\ sameBag(Flat(gs1.playerCaptures[p]), Flat(gs2.playerCaptures[p]))
    /\ sameBag(looseCards(gs1), looseCards(gs2))
    /\ gs1.currentPlayer = gs2.currentPlayer

StackCreatingActions ==
    {"handleCreateStagingStack", "handleStageSingleCardFromHand", "handleStageOpponentCard"}

stacksOf(gs) == {t \in Range(gs.tableCards) : typeOf(t) = "temporary_stack"}

(* C19: cancelling the stack a player without a stack has just created     *)
(* gives back the zones of the position before, and adding a hand card to  *)
(* a stack does not change what cancelling it gives back; so creation,     *)
(* any additions and a cancel restore every zone and the player to move.   *)
C19_CancelUndoesStaging ==
    [][gameState' # gameState =>
        /\ (/\ last'.action \in StackCreatingActions
            /\ ~ownsTempStack(gameState.tableCards, gameState.currentPlayer))
           => \A st \in stacksOf(gameState') \ stacksOf(gameState) :
                 sameZones(handleCancelStagingStack(gameState', st), gameState)
        /\ last'.action = "handleAddToStagingStack"
           => \A st \in stacksOf(gameState') :
                 st.stackId = last'.args.stack.stackId
                   => sameZones(handleCancelStagingStack(gameState', st),
                                handleCancelStagingStack(gameState, last'.args.stack))]_vars

(* Can the stack's one hand card capture the stack's other cards? *)
captureInterpretation(stack) ==
    LET handCards == Filter(stack.cards, LAMBDA c : sourceOf(c) = "hand")
        others == Filter(stack.cards, LAMBDA c : sourceOf(c) # "hand")
        v == rankValue(handCards[1].rank)
    IN  /\ Len(handCards) = 1
        /\ Len(others) > 0
        /\ (calculateCardSum(others) = v \/ canPartitionIntoSums(others, v))

(* No capture, no build and no reinforcement can be made of the stack. *)
noInterpretation(gs, stack) ==
    /\ ~captureInterpretation(stack)
    /\ findPossibleBuildsFromStack(stack, gs.playerHands[gs.currentPlayer],
                                   gs.tableCards, gs.currentPlayer) = <<>>
    /\ \A b \in Range(gs.tableCards) :
          typeOf(b) = "build"
            => ~validateReinforceOpponentBuildWithStack(stack, b, gs.currentPlayer).valid

(* C20: finalizing a stack of the player to move that allows no capture    *)
(* and no build gives a position without the stack, its cards back in      *)
(* the hand, the opponent's captures and loose on the table, and the turn  *)
(* passed.                                                                 *)
C20_InvalidFinalizeDisbands ==
    \A stack \in StacksOnTable :
        (stack.owner = gameState.currentPlayer /\ noInterpretation(gameState, stack))
        => LET r == handleFinalizeStagingStack(gameState, stack)
               p == gameState.currentPlayer
           IN  /\ isGameState(r)
               /\ \A st \in stacksOf(r) : st.stackId # stack.stackId
               /\ r.currentPlayer = 1 - p
               /\ sameBag(r.playerHands[p],
                          gameState.playerHands[p] \o taggedCards(stack, {"hand"}))
               /\ sameBag(Flat(r.playerCaptures[1 - p]),
                          Flat(gameState.playerCaptures[1 - p])
                          \o taggedCards(stack, {"opponentCapture"}))
               /\ sameBag(looseCards(r),
                          looseCards(gameState)
                          \o taggedCards(stack, {"table", "undefined"}))

(* The number of ways the stack can be played: its capture by the hand     *)
(* card in it, and one build for every value the remaining hand can take.  *)
interpretations(gs, stack) ==
    (IF captureInterpretation(stack) THEN 1 ELSE 0)
    + Len(findPossibleBuildsFromStack(stack, gs.playerHands[gs.currentPlayer],
                                      gs.tableCards, gs.currentPlayer))

(* C21: finalizing a stack of the player to move with exactly one          *)
(* interpretation gives a position without the stack and with the turn     *)
(* passed; with more than one it changes nothing and returns as many       *)
(* options as there are interpretations, captures included.                *)
C21_FinalizeByInterpretations ==
    \A stack \in StacksOnTable :
        stack.owner = gameState.currentPlayer
        => LET r == handleFinalizeStagingStack(gameState, stack)
               n == interpretations(gameState, stack)
           IN  /\ n = 1 => /\ isGameState(r)
                           /\ \A st \in stacksOf(r) : st.stackId # stack.stackId
                           /\ r.currentPlayer = 1 - gameState.currentPlayer
               /\ n > 1 => /\ ~isGameState(r)
                           /\ has(r, "options")
                           /\ Len(r.options) = n

(* The hand card captures the stack: its value is the stack's sum, or the  *)
(* stack's cards group into sums of it.                                    *)
captureOfStackIsValid(card, stack) ==
    LET v == rankValue(card.rank)
        s == calculateCardSum(stack.cards)
    IN  v = s \/ (s % v = 0 /\ canPartitionIntoSums(stack.cards, v))

(* C22: a hand card dropped on the temporary stack the handler takes for   *)
(* the player's own, when the card can both capture the stack and make a   *)
(* build of it, changes nothing and offers the two actions.                *)
C22_NoGuessOnStackDrop ==
    \A d \in DraggedItems, t \in Targets :
        (/\ d.source = "hand"
         /\ typeOf(t) = "temporary_stack"
         /\ findStack(gameState.tableCards, t.stackId) # 0)
        => LET stack == gameState.tableCards[findStack(gameState.tableCards, t.stackId)]
               r == handleHandCardDrop(d, t, gameState)
           IN  (/\ stack.owner = gameState.currentPlayer - 1
                /\ captureOfStackIsValid(d.card, stack)
                /\ isValid(validateTemporaryStackBuild(stack, d.card,
                               handAt(gameState, gameState.currentPlayer - 1),
                               gameState.tableCards, gameState.currentPlayer)))
               => /\ r.state = gameState
                  /\ Len(r.modal) = 2

(* C23: no card of a build and no captured card carries a source tag. *)
C23_NoTagsInPermanentZones ==
    /\ \A b \in BuildsOnTable : \A c \in Range(b.cards) : ~has(c, "source")
    /\ \A p \in Players :
          \A c \in Range(Flat(gameState.playerCaptures[p])) : ~has(c, "source")

(* The stacks that can be dragged and the builds they can be dropped on. *)
StackDrops ==
    {x \in DraggedItems \X Targets :
        /\ x[1].source = "temporary_stack"
        /\ typeOf(x[2]) = "build"
        /\ findStack(gameState.tableCards, x[1].stackId) # 0
        /\ findBuild(gameState.tableCards, x[2].buildId) # 0}

C25_ExtendToMerge ==
    [][(gameState' # gameState /\ last'.action = "handleExtendToMerge")
       => LET card == last'.args.card
              opponentBuild == last'.args.opponentBuild
              ownBuild == last'.args.ownBuild
              p == gameState.currentPlayer
              merged == builtItem(gameState')
          IN  /\ opponentBuild.isExtendable
              /\ ownBuild.owner = p
              /\ opponentBuild.owner # p
              /\ opponentBuild.value + rankValue(card.rank) = ownBuild.value
              /\ Len(gameState'.playerHands[p]) = Len(gameState.playerHands[p]) - 1
              /\ gameState'.playerHands[1 - p] = gameState.playerHands[1 - p]
              /\ merged.owner = p
              /\ merged.value = ownBuild.value
              /\ ~merged.isExtendable
              /\ sameBag(merged.cards, ownBuild.cards \o opponentBuild.cards \o <<card>>)
              /\ sameBag(gameState'.tableCards,
                         Append(Filter(gameState.tableCards,
                                       LAMBDA i : i # ownBuild /\ i # opponentBuild),
                                merged))
              /\ gameState'.currentPlayer = p]_vars

(* C26: with both hands empty and a deck of exactly twenty cards,          *)
(* startNextRound gives round 2, an empty deck and two hands of ten cards  *)
(* dealt from the end of the deck one at a time, player 0 first, and       *)
(* leaves the table as it was; with fewer than twenty cards in the deck it *)
(* returns the state it was given.                                         *)
C26_RoundTransitionDeal ==
    LET gs == gameState
        r == startNextRound(gs)
        n == Len(gs.deck)
    IN  /\ (gs.playerHands[0] = <<>> /\ gs.playerHands[1] = <<>> /\ n = 20)
           => /\ r.round = 2
              /\ r.deck = <<>>
              /\ Len(r.playerHands[0]) = 10
              /\ Len(r.playerHands[1]) = 10
              /\ \A k \in 1..10 :
                    /\ r.playerHands[0][k] = gs.deck[n + 2 - 2 * k]
                    /\ r.playerHands[1][k] = gs.deck[n + 1 - 2 * k]
              /\ r.tableCards = gs.tableCards
        /\ n < 20 => r = gs

(* Round 2 has just been dealt. *)
C26_Witness ==
    /\ last.action = "startNextRound"
    /\ gameState.round = 2
    /\ Len(gameState.playerHands[0]) = 10
    /\ Len(gameState.playerHands[1]) = 10

(* Both hands are played out and the game is not over. *)
handsPlayedOut ==
    /\ ~gameState.gameOver
    /\ gameState.playerHands[0] = <<>>
    /\ gameState.playerHands[1] = <<>>

(* The game's phase: 1 and 2 for the rounds, 3 when it is over. *)
phase(gs) == IF gs.gameOver THEN 3 ELSE gs.round

(* C27: the phase never goes back, and once both hands are played out the  *)
(* next phase comes: round 2 after round 1, the end after round 2.         *)
C27_LifecycleProgress ==
    /\ [][phase(gameState') >= phase(gameState)]_vars
    /\ (handsPlayedOut /\ gameState.round = 1) ~> (phase(gameState) >= 2)
    /\ (handsPlayedOut /\ gameState.round = 2) ~> (phase(gameState) = 3)

(* The cards lying on the table, loose or in a build or a stack. *)
cardsOnTable(gs) == Flat(Map(gs.tableCards, cardsOf))

(* C28: when the game ends with entities on the table and a last           *)
(* capturer, the table is emptied and the cards that were on it, loose or  *)
(* in builds or stacks, are added as cards to the last capturer's          *)
(* captures, the other player's staying; without a last capturer the       *)
(* table and the captures stay.                                            *)
C28_SweepAtGameEnd ==
    [][(gameState' # gameState /\ last'.action = "endGame")
       => LET lc == gameState.lastCapturer
          IN  IF lc # null /\ gameState.tableCards # <<>>
              THEN /\ gameState'.tableCards = <<>>
                   /\ sameBag(Map(Flat(gameState'.playerCaptures[lc]), stripSource),
                              Map(Flat(gameState.playerCaptures[lc]) \o cardsOnTable(gameState),
                                  stripSource))
                   /\ gameState'.playerCaptures[1 - lc] = gameState.playerCaptures[1 - lc]
              ELSE /\ gameState'.tableCards = gameState.tableCards
                   /\ gameState'.playerCaptures = gameState.playerCaptures]_vars

(***************************************************************************)
(* The end of a game, for the scoring.  The forty cards are those of the   *)
(* deal above; six of them, the ones that score and two plain ones, are    *)
(* in either player's captures or still on the table, the other            *)
(* thirty-four are captured, seventeen by each player.  In one more        *)
(* position nobody captured anything.                                      *)
(***************************************************************************)
ScoredCards ==
    << C("A", "S"), C("2", "S"), C("5", "S"), C("10", "D"), C("A", "H"), C("3", "C") >>

ScoringPositions ==
    LET FullDeck == cardsIn(BaseState)
        RestCards == Filter(FullDeck, LAMBDA c : ~Some(ScoredCards, LAMBDA s : s = c))
        picked(f, z) == Flat([i \in 1..Len(ScoredCards) |->
                              IF f[i] = z THEN <<ScoredCards[i]>> ELSE <<>>])
        GameEnd == [BaseState EXCEPT !.round = 2, !.deck = <<>>,
                                     !.playerHands = [p \in Players |-> <<>>]]
        NothingCaptured == [GameEnd EXCEPT
                               !.tableCards = FullDeck,
                               !.playerCaptures = [p \in Players |-> <<>>],
                               !.lastCapturer = null]
    IN  {NothingCaptured}
        \cup {[GameEnd EXCEPT
                  !.tableCards = picked(f, 2),
                  !.playerCaptures = [p \in Players |->
                      << SubSeq(RestCards, 17 * p + 1, 17 * p + 17) \o picked(f, p) >>],
                  !.lastCapturer = lc] :
                f \in [1..Len(ScoredCards) -> {0, 1, 2}], lc \in Players}

InitScores ==
    /\ gameState \in ScoringPositions
    /\ last = [action |-> "init", player |-> gameState.currentPlayer, args |-> <<>>]
    /\ clock = 0
    /\ TwoConnected

SpecScores == InitScores /\ [][EndGame]_vars

(* 2 points to the larger count, 1 point to each of two equal counts. *)
pointsForMost(mine, theirs) ==
    IF mine > theirs THEN 2 ELSE IF mine = theirs THEN 1 ELSE 0

(* The points of player p for the captures, rule by rule. *)
pointsOf(playerCaptures, p) ==
    LET mine == Flat(playerCaptures[p])
        theirs == Flat(playerCaptures[1 - p])
        spades(cards) == count(cards, LAMBDA c : field(c, "suit") = "S")
    IN  pointsForMost(Len(mine), Len(theirs))
        + pointsForMost(spades(mine), spades(theirs))
        + count(mine, LAMBDA c : field(c, "rank") = "A")
        + (IF Some(mine, LAMBDA c : field(c, "rank") = "10" /\ field(c, "suit") = "D")
           THEN 2 ELSE 0)
        + (IF Some(mine, LAMBDA c : field(c, "rank") = "2" /\ field(c, "suit") = "S")
           THEN 1 ELSE 0)

(* C29: the scores of a finished game are, for each player, 2 points for   *)
(* more cards or 1 for as many, 2 points for more spades or 1 for as many, *)
(* 1 point an Ace, 2 points for the ten of diamonds and 1 for the two of   *)
(* spades; the winner has the higher total, and nobody wins on equal       *)
(* totals.                                                                 *)
C29_Scoring ==
    gameState.gameOver
    => LET total == [p \in Players |-> pointsOf(gameState.playerCaptures, p)]
       IN  /\ gameState.scores = total
           /\ gameState.winner = IF total[0] > total[1] THEN 0
                                 ELSE IF total[1] > total[0] THEN 1 ELSE null

(* C30: once the game is over no step changes the hands, the table, the    *)
(* captures, the player to move, the scores or the winner.                 *)
C30_GameOverIsFrozen ==
    [][gameState.gameOver
       => /\ gameState'.playerHands = gameState.playerHands
          /\ gameState'.tableCards = gameState.tableCards
          /\ gameState'.playerCaptures = gameState.playerCaptures
          /\ gameState'.currentPlayer = gameState.currentPlayer
          /\ gameState'.scores = gameState.scores
          /\ gameState'.winner = gameState.winner]_vars

(* C31: the state passed to handleDisbandStagingStack or                   *)
(* handleCancelStagingStack is, after the call, the state it was before,   *)
(* whatever the stack holds.                                               *)
C31_NoInPlaceMutation ==
    \A stack \in StacksOnTable : inputAfterReturnStackCards(gameState, stack) = gameState

(* C32: handleAddToStagingStack returns a state for every card and every   *)
(* stack a caller can name, a stack no longer on the table included.       *)
C32_NoExceptionEscapes ==
    \A card \in HandPayloads, stack \in StacksOnTable \cup {StaleStack} :
        LET result == handleAddToStagingStack(gameState, card, stack)
        IN  ~threw(result) /\ isGameState(result)

(* The cards can be put in groups, every card in one group, each group     *)
(* summing to target.                                                      *)
groupable(cards, target) ==
    LET n == Len(cards)
        vals == [i \in 1..n |-> rankValue(cards[i].rank)]
    IN  /\ n > 0
        /\ \E f \in [1..n -> 1..n] :
              \A g \in 1..n :
                 LET members == {i \in 1..n : f[i] = g}
                 IN  members = {} \/ sumAt(vals, members) = target

(* The values of the hand's cards other than the stack's hand card for     *)
(* which the stack's cards are groupable.                                  *)
buildValuesOf(stack) ==
    LET used == Filter(stack.cards, LAMBDA c : sourceOf(c) = "hand")
        remaining == {c \in Range(hand) : \A u \in Range(used) : ~sameCard(c, u)}
    IN  {v \in {rankValue(c.rank) : c \in remaining} : groupable(stack.cards, v)}

(* The spec's examples of canPartitionIntoSums. *)
partitionExamples ==
    /\ canPartitionIntoSums(<< C("4", "H"), C("4", "S") >>, 8)
    /\ canPartitionIntoSums(<< C("5", "H"), C("3", "S") >>, 8)
    /\ canPartitionIntoSums(<< C("8", "H") >>, 8)
    /\ ~canPartitionIntoSums(<< C("5", "H"), C("5", "S") >>, 8)
    /\ ~canPartitionIntoSums(<<>>, 5)

(* C33 as stated: canPartitionIntoSums is true exactly of the groupable    *)
(* cards, and findPossibleBuildsFromStack returns, for every stack,        *)
(* exactly the distinct values of the remaining hand for which the         *)
(* stack's cards are groupable.                                            *)
C33_PossibleBuildsOfEveryStack ==
    /\ partitionExamples
    /\ \A stack \in StacksOnTable :
          LET r == findPossibleBuildsFromStack(stack, hand, gameState.tableCards,
                                               gameState.currentPlayer)
          IN  /\ \A target \in 1..10 :
                    canPartitionIntoSums(stack.cards, target) <=> groupable(stack.cards, target)
              /\ Range(r) = buildValuesOf(stack)
              /\ Len(r) = Cardinality(Range(r))

(* C33, amended: as above for a stack with exactly one hand card when the  *)
(* player owns no build; for any other stack, and for a player who owns a  *)
(* build, findPossibleBuildsFromStack returns no value.                    *)
C33_PossibleBuildsOfQualifyingStack ==
    /\ partitionExamples
    /\ \A stack \in StacksOnTable :
          LET r == findPossibleBuildsFromStack(stack, hand, gameState.tableCards,
                                               gameState.currentPlayer)
              qualifies ==
                  /\ ~hasActiveBuild(gameState.tableCards, gameState.currentPlayer)
                  /\ Len(Filter(stack.cards, LAMBDA c : sourceOf(c) = "hand")) = 1
          IN  /\ \A target \in 1..10 :
                    canPartitionIntoSums(stack.cards, target) <=> groupable(stack.cards, target)
              /\ IF qualifies
                 THEN Range(r) = buildValuesOf(stack) /\ Len(r) = Cardinality(Range(r))
                 ELSE r = <<>>

(* A qualifying stack for which some values of the hand are possible       *)
(* builds and others are not.                                              *)
C33_Witness ==
    \E stack \in StacksOnTable :
        LET r == findPossibleBuildsFromStack(stack, hand, gameState.tableCards,
                                             gameState.currentPlayer)
        IN  /\ r # <<>>
            /\ \E c \in Range(hand) : \A i \in 1..Len(r) : r[i] # rankValue(c.rank)


gameRunning == isGameState(gameState) /\ Len(players) >= 2

(* C34: a game-action from a socket whose player index is not the player   *)
(* to move is answered with "It's not your turn." to that socket alone,    *)
(* leaves the game state as it was and broadcasts no game-update; while no *)
(* game is running a game-action changes nothing and sends nothing.        *)
C34_TurnGating ==
    /\ [](gameRunning =>
            \A socket \in Range(players), call \in gameActionCalls :
                findIndexOfSocket(players, socket) # gameState.currentPlayer
                => LET outcome == onGameAction(socket, call)
                   IN  /\ outcome.gameState = gameState
                       /\ outcome.emitted = << emit(socket, "error", "It's not your turn.") >>)
    /\ [][(~gameRunning /\ players' = players)
          => /\ gameState' = gameState
             /\ playerNumber' = playerNumber
             /\ emitted' = <<>>]_vars

C34_Witness ==
    /\ gameRunning
    /\ \E socket \in Range(players) :
        /\ findIndexOfSocket(players, socket) # gameState.currentPlayer
        /\ emitted = << emit(socket, "error", "It's not your turn.") >>


(* C40: while a game is running, the index the server finds for a socket   *)
(* is the playerNumber that socket received in game-start, and a socket    *)
(* whose index can pass the turn check has received game-start.            *)
C40_StablePlayerIdentity ==
    gameRunning =>
        \A socket \in Range(players) :
            LET serverIndex == findIndexOfSocket(players, socket)
            IN  /\ playerNumber[socket] # null => serverIndex = playerNumber[socket]
                /\ serverIndex \in Players => playerNumber[socket] # null


(* C35: when the player to move has an action applied right after another  *)
(* of their own, with a card they hold and a build named as it was before  *)
(* the first, the second is reduced against the table as the first left    *)
(* it: no card is lost or duplicated, and every build or stack the second  *)
(* puts on the table is made of cards that were on the table or in the     *)
(* player's hand after the first.                                          *)
C35_NoStaleSnapshot ==
    [][(/\ gameState' # gameState
        /\ last.action # "init"
        /\ last.player = gameState.currentPlayer
        /\ has(last'.args, "card")
        /\ inHand(gameState, last'.args.card)
        /\ \E f \in DOMAIN last'.args \cap {"build", "opponentBuild", "ownBuild"} :
                last'.args[f] \in SnapshotBuilds)
       => /\ sameCards(gameState, gameState')
          /\ \A e \in Range(gameState'.tableCards) \ Range(gameState.tableCards) :
                \A c \in Range(cardsOf(e)) :
                    \/ inHand(gameState, c)
                    \/ \E t \in Range(gameState.tableCards) :
                        Some(cardsOf(t), LAMBDA x : sameCard(x, c))]_vars


(* C36: whenever the turn passes from a player to the other, the table     *)
(* holds no temporary stack owned by the player who just moved.            *)
C36_StackEndsWithTurn ==
    [][gameState'.currentPlayer # gameState.currentPlayer
       => ~ownsTempStack(gameState'.tableCards, gameState.currentPlayer)]_vars


ownBuilds == {b \in BuildsOnTable : b.owner = gameState.currentPlayer}

(* The request is answered by reinforcing the player's build with the hand *)
(* card and the targeted cards.                                            *)
addedToBuild(result, card, selected, build) ==
    /\ result.currentPlayer = 1 - gameState.currentPlayer
    /\ result.playerCaptures = gameState.playerCaptures
    /\ result.lastCapturer = gameState.lastCapturer
    /\ ~inHand([result EXCEPT !.currentPlayer = gameState.currentPlayer], card)
    /\ \A s \in Range(selected) : s \notin Range(result.tableCards)
    /\ \E newBuild \in Range(result.tableCards) :
        /\ typeOf(newBuild) = "build"
        /\ newBuild.buildId # build.buildId
        /\ newBuild.value = build.value
        /\ newBuild.owner = build.owner
        /\ ~newBuild.isExtendable
        /\ newBuild.cards = build.cards \o <<card>> \o selected

(* The request is answered as a capture: refused, or a group added to the  *)
(* player's captures.                                                      *)
processedAsCapture(result) ==
    \/ result = gameState
    \/ /\ result.lastCapturer = gameState.currentPlayer
       /\ Len(result.playerCaptures[gameState.currentPlayer])
            = Len(gameState.playerCaptures[gameState.currentPlayer]) + 1

(* C37: a capture from hand on loose cards only, by a player who owns a    *)
(* build whose value the hand card and the targets group into, reinforces  *)
(* that build and ends the turn without capturing; every other capture     *)
(* request is processed as a capture.                                      *)
C37_ImplicitAddToBuild ==
    \A card \in Range(hand), selected \in Selections :
        LET result == handleCapture(gameState, fromHand(card), selected, <<>>)
            reinforced == {b \in ownBuilds :
                             /\ \A s \in Range(selected) : isLoose(s)
                             /\ groupable(<<card>> \o selected, b.value)}
        IN  IF reinforced # {}
            THEN \E b \in reinforced : addedToBuild(result, card, selected, b)
            ELSE processedAsCapture(result)


(* C38: every temporary stack and build on the table is owned by player 0  *)
(* or player 1, and a temporary stack a step creates (one with an id no    *)
(* stack had before) is owned by the player who was to move.               *)
C38_OwnersInRange ==
    /\ [](\A t \in Range(gameState.tableCards) : has(t, "owner") => t.owner \in Players)
    /\ [][\A t \in Range(gameState'.tableCards) \ Range(gameState.tableCards) :
            (has(t, "stackId") /\ \A s \in StacksOnTable : s.stackId # t.stackId)
            => t.owner = gameState.currentPlayer]_vars


(* C39: with a game state present, whoever is to move, a drop of an item   *)
(* with a valid source is not refused as 'Invalid game state' and reaches  *)
(* the drop handler of its source.                                         *)
C39_BothTurnsAccepted ==
    \A draggedItem \in DraggedItems, targetInfo \in Targets :
        LET result == determineActions(draggedItem, targetInfo, <<gameState>>)
        IN  /\ result.errorMessage # "Invalid game state"
            /\ result.handler =
                 (CASE draggedItem.source = "hand" -> "handleHandCardDrop"
                    [] draggedItem.source = "temporary_stack" -> "handleTemporaryStackDrop"
                    [] OTHER -> "handleTableCardDrop")

====
